---- MODULE Spec2Model ----
(***************************************************************************)
(* Session reconciliation engine of study-together: the useFirebaseSession *)
(* hook (presence records, snapshot listener, join / start / end / leave,  *)
(* heartbeat effect), the completed-session recorder and the session       *)
(* archive, driven by a bounded number of browser tabs against one shared  *)
(* Firestore "sessions" collection.                                        *)
(*                                                                         *)
(* Times are milliseconds.  An optional value is a sequence of length 0    *)
(* (null) or 1.  A null Timestamp is NullTime.                             *)
(***************************************************************************)
EXTENDS Integers, Sequences, FiniteSets, TLC

\* ------------------------------------------------------------------ bounds
NumTabs == 2
MaxIds == 2
MaxTicks == 1
MaxPending == 2
MaxInbox == 1
MaxCompleted == 2
MaxHistory == 1
MaxCalls == 3
MaxFaults == 1
MaxToggles == 2

\* ------------------------------------------------------- program constants
MinSavedSeconds == 5
FeedbackSeconds == 30
MsPerSecond == 1000

\* ------------------------------------------------------------- input sets
Tabs == 1..NumTabs
Ids == 1..MaxIds
\* what the user of a tab may type into the name field: their name, bare or
\* padded with blanks, blanks alone, or nothing
NameOf(t) == IF t = 1 THEN "A" ELSE IF t = 2 THEN "B" ELSE "C"
RawNames(t) == { << NameOf(t) >>, << " ", NameOf(t), " " >>, << " " >>, << >> }
\* how far the clock may jump in one step: just under and just at 5 s, 40 s, 125 s
TickSteps == {4999, 5000, 40000, 125000}
\* how far a client clock is behind the server clock
ClientLags == {0, 4500}
StartOfTime == 1000

NullTime == -1
Null == << >>
Some(x) == << x >>
IsNull(o) == o = << >>
Val(o) == o[1]

VARIABLES
  now,               \* the server clock
  ticks,             \* clock steps taken so far
  lag,               \* clients' Timestamp.now() / Date.now() is now - lag
  calls,             \* handler calls by users so far
  faults,            \* remote failures and janitor evictions so far
  toggles,           \* visibility changes so far
  sessions,          \* collection "sessions": id -> optional document
  nextId,            \* next document id the store hands out
  completed,         \* collection "completed_sessions", in append order
  history,           \* collection "session_history", in append order
  wrote,             \* the write to "sessions" the step just taken issued, if any
  currentUser,       \* per tab: useState currentUser
  allUsers,          \* per tab: useState allUsers
  isLoading,         \* per tab
  error,             \* per tab: optional message
  showFeedbackModal, \* per tab
  sessionDuration,   \* per tab
  isJoining,         \* per tab
  isLeaving,         \* per tab
  isStartingSession, \* per tab: Lobby's useState isStartingSession
  savedUserId,       \* per tab: localStorage 'study-app-user-id'
  hidden,            \* per tab: document.hidden
  hbTimer,           \* per tab: the heartbeat effect's `interval`
  leaked,            \* per tab: ids of interval timers no longer tracked
  inbox,             \* per tab: snapshots emitted to the listener, undelivered
  pending            \* per tab: handlers suspended at an await

storeVars == << sessions, nextId, completed, history >>
clockVars == << now, ticks, lag >>
envVars == << calls, faults, toggles >>
uiVars == << isLoading, error, showFeedbackModal, sessionDuration >>
hbVars == << hidden, hbTimer, leaked >>
\* the program's state: everything but `wrote` and the budgets
state == << now, ticks, lag, sessions, nextId, completed, history, currentUser,
            allUsers, isLoading, error, showFeedbackModal, sessionDuration,
            isJoining, isLeaving, isStartingSession, savedUserId, hidden, hbTimer,
            leaked, inbox, pending >>
vars == << now, ticks, lag, calls, faults, toggles, sessions, nextId, completed, history, wrote,
           currentUser, allUsers, isLoading, error, showFeedbackModal,
           sessionDuration, isJoining, isLeaving, isStartingSession, savedUserId,
           hidden, hbTimer, leaked, inbox, pending >>

\* ------------------------------------------------------------- pure parts

\* variant: the name is taken as typed
KeepBlanks(s) == s

\* String.prototype.trim on a sequence of characters
RECURSIVE TrimLeft(_)
TrimLeft(s) ==
  IF s # << >> /\ Head(s) = " " THEN TrimLeft(Tail(s)) ELSE s

RECURSIVE TrimRight(_)
TrimRight(s) ==
  IF s # << >> /\ s[Len(s)] = " " THEN TrimRight(SubSeq(s, 1, Len(s) - 1)) ELSE s

Trim(s) == TrimRight(TrimLeft(s))

\* Math.floor(ms / 1000)
FloorSeconds(ms) == ms \div MsPerSecond

\* Timestamp.now() / Date.now() on a client
ClientNow == now - lag

\* ts?.toMillis() || null
MillisOrNull(ts) == IF ts = NullTime \/ ts = 0 THEN NullTime ELSE ts

\* a document of "sessions" as the listener sees it: { id: doc.id, ...doc.data() }
ToSession(i, d) ==
  [ id |-> i, name |-> d.name, status |-> d.status,
    sessionStartTime |-> d.sessionStartTime, lastSeen |-> d.lastSeen ]

\* the full collection, as one snapshot
Snapshot(coll) == { ToSession(i, Val(coll[i])) : i \in { j \in Ids : ~IsNull(coll[j]) } }

\* variant: a find whose predicate holds of every record
FindFirst(snap, id) == IF snap = {} THEN {} ELSE { CHOOSE u \in snap : TRUE }

\* sessions.find(user => user.id === savedUserId)
Find(snap, id) == { u \in snap : u.id = id }

\* what the step just taken did against "sessions": the handler `by` of tab `tab`
\* issued the write `kind` on document `id` (kind "none": it issued no write)
NoWrite == [ tab |-> 0, by |-> "none", kind |-> "none", id |-> 0, hidden |-> FALSE ]
Write(t, b, k, i, h) == [ tab |-> t, by |-> b, kind |-> k, id |-> i, hidden |-> h ]

Init ==
  /\ now = StartOfTime
  /\ ticks = 0
  /\ lag \in ClientLags
  /\ calls = 0
  /\ faults = 0
  /\ toggles = 0
  /\ sessions = [ i \in Ids |-> Null ]
  /\ nextId = 1
  /\ completed = << >>
  /\ history = << >>
  /\ wrote = NoWrite
  /\ currentUser = [ t \in Tabs |-> Null ]
  /\ allUsers = [ t \in Tabs |-> {} ]
  /\ isLoading = [ t \in Tabs |-> TRUE ]
  /\ error = [ t \in Tabs |-> Null ]
  /\ showFeedbackModal = [ t \in Tabs |-> FALSE ]
  /\ sessionDuration = [ t \in Tabs |-> 0 ]
  /\ isJoining = [ t \in Tabs |-> FALSE ]
  /\ isLeaving = [ t \in Tabs |-> FALSE ]
  /\ isStartingSession = [ t \in Tabs |-> FALSE ]
  /\ savedUserId = [ t \in Tabs |-> Null ]
  /\ hidden = [ t \in Tabs |-> FALSE ]
  /\ hbTimer = [ t \in Tabs |-> "none" ]
  /\ leaked = [ t \in Tabs |-> {} ]
  /\ inbox = [ t \in Tabs |-> << Snapshot([ i \in Ids |-> Null ]) >> ]
  /\ pending = [ t \in Tabs |-> << >> ]

\* ------------------------------------------------------ store primitives

\* variant: a heartbeat whose update also carries a name field, left blank
TouchWithName(coll, i) ==
  IF IsNull(coll[i]) THEN coll
  ELSE [ coll EXCEPT ![i] = Some([ Val(@) EXCEPT !.lastSeen = now, !.name = << >> ]) ]

\* updateDoc(doc(db, 'sessions', i), { lastSeen: serverTimestamp() }) applied;
\* updateDoc on a missing document changes nothing (it rejects)
Touch(coll, i) ==
  IF IsNull(coll[i]) THEN coll
  ELSE [ coll EXCEPT ![i] = Some([ Val(@) EXCEPT !.lastSeen = now ]) ]

\* a listener's queue takes one more snapshot; a full queue drops its oldest
\* (a listener may skip intermediate snapshots, never the latest)
Enqueue(q, snap) ==
  IF Len(q) < MaxInbox THEN Append(q, snap) ELSE Append(Tail(q), snap)

\* variant: a store whose writes reach no listener
EmitNothing(box, old, new) == box

\* every store-changing step pushes the new full snapshot to every listener
Emit(box, old, new) ==
  IF new = old THEN box ELSE [ t \in Tabs |-> Enqueue(box[t], Snapshot(new)) ]

\* variant: a new listener that starts with the collection as it was before the
\* write of the step that registered it
ResubscribeStale(box, t, coll) == [ box EXCEPT ![t] = << Snapshot(sessions) >> ]

\* variant: a snapshot effect that keeps its listener when a flag changes
KeepListener(box, t, coll) == box

\* a listener (re)registered by the snapshot effect starts with the current snapshot
Resubscribe(box, t, coll) == [ box EXCEPT ![t] = << Snapshot(coll) >> ]

\* a handler suspended at an await, with what its closure captured
Op(o, ph, i, n, s, e, d) ==
  [ op |-> o, phase |-> ph, id |-> i, name |-> n, start |-> s, at |-> e, dur |-> d ]

Drop(q, k) == SubSeq(q, 1, k - 1) \o SubSeq(q, k + 1, Len(q))

PendingOf(o, ph) ==
  { << t, k >> \in Tabs \X (1..MaxPending) :
      k <= Len(pending[t]) /\ pending[t][k].op = o /\ pending[t][k].phase = ph }

\* ---------------------------------------------------------------- budgets

\* a step that is neither a user's call, a failure, an eviction nor a toggle
NoCost == UNCHANGED envVars

\* a user calls a handler
Call ==
  /\ calls < MaxCalls
  /\ calls' = calls + 1
  /\ UNCHANGED << faults, toggles >>

\* a handler that returns at its guard: nothing changes, no write is issued
Returned(t, b) ==
  /\ Call
  /\ wrote' = Write(t, b, "none", 0, hidden[t])
  /\ UNCHANGED state

\* a remote operation fails, or the janitor evicts a record
Fault ==
  /\ faults < MaxFaults
  /\ faults' = faults + 1
  /\ UNCHANGED << calls, toggles >>

\* ------------------------------------------------------- heartbeat effect

\* the effect's cleanup and re-run when currentUser changes: the tracked interval
\* is cleared, and a new one is started if there is a user (hidden or not)
EffectTimer(t, new) ==
  IF new = currentUser[t] THEN hbTimer[t]
  ELSE IF IsNull(new) THEN "none" ELSE "live"

\* updateUserHeartbeat(userId) applied to the collection: updateDoc of lastSeen
\* alone; when the write fails (ok = FALSE) the error is logged and nothing changes
HeartbeatApplied(coll, i, ok) == IF ok THEN Touch(coll, i) ELSE coll

\* the setInterval callback: if (!document.hidden) updateUserHeartbeat(id)
IntervalWrites(t) == ~hidden[t]

\* variant: a heartbeat whose failure is shown to the user
TimerFiresReportsFailure(t, i) ==
  /\ IF IntervalWrites(t)
       THEN \E ok \in BOOLEAN :
              /\ IF ok THEN NoCost ELSE Fault
              /\ sessions' = HeartbeatApplied(sessions, i, ok)
              /\ wrote' = Write(t, "interval", "heartbeat", i, hidden[t])
              /\ inbox' = Emit(inbox, sessions, HeartbeatApplied(sessions, i, ok))
              /\ error' = [ error EXCEPT ![t] =
                              IF ok THEN @ ELSE Some("Failed to update heartbeat") ]
       ELSE /\ wrote' = NoWrite
            /\ UNCHANGED << envVars, sessions, inbox, error >>
  /\ UNCHANGED << clockVars, isStartingSession, nextId, completed, history, currentUser, allUsers,
                  isLoading, showFeedbackModal, sessionDuration, isJoining, isLeaving,
                  savedUserId, hbVars, pending >>

\* the callback of an interval timer, holding the id `i` of its closure
TimerFires(t, i) ==
  /\ IF IntervalWrites(t)
       THEN \E ok \in BOOLEAN :
              /\ IF ok THEN NoCost ELSE Fault
              /\ sessions' = HeartbeatApplied(sessions, i, ok)
              /\ wrote' = Write(t, "interval", "heartbeat", i, hidden[t])
              /\ inbox' = Emit(inbox, sessions, HeartbeatApplied(sessions, i, ok))
       ELSE /\ wrote' = NoWrite
            /\ UNCHANGED << envVars, sessions, inbox >>
  /\ UNCHANGED << clockVars, isStartingSession, nextId, completed, history, currentUser, allUsers,
                  uiVars, isJoining, isLeaving, savedUserId, hbVars, pending >>

\* the interval the effect tracks fires
IntervalTick(t) ==
  /\ hbTimer[t] = "live"
  /\ ~IsNull(currentUser[t])
  /\ TimerFires(t, Val(currentUser[t]).id)

\* an interval the effect no longer tracks fires, with the id its closure holds
LeakedTick(t, i) ==
  /\ i \in leaked[t]
  /\ TimerFires(t, i)

\* document 'visibilitychange': the tab is hidden or shown
handleVisibilityChange(t) ==
  /\ hidden' = [ hidden EXCEPT ![t] = ~@ ]
  /\ IF IsNull(currentUser[t])
       THEN /\ wrote' = Write(t, "handleVisibilityChange", "none", 0, ~hidden[t])
            /\ UNCHANGED << sessions, inbox, hbTimer, leaked >>
       ELSE IF ~hidden[t]
         THEN \* now hidden: if (interval) clearInterval(interval)
              /\ hbTimer' = [ hbTimer EXCEPT ![t] = "cleared" ]
              /\ wrote' = Write(t, "handleVisibilityChange", "none", 0, TRUE)
              /\ UNCHANGED << sessions, inbox, leaked >>
         ELSE \* now visible: immediate heartbeat, then startHeartbeat()
              /\ \E ok \in BOOLEAN :
                   /\ sessions' = HeartbeatApplied(sessions, Val(currentUser[t]).id, ok)
                   /\ inbox' = Emit(inbox, sessions,
                                    HeartbeatApplied(sessions, Val(currentUser[t]).id, ok))
              /\ wrote' = Write(t, "handleVisibilityChange", "heartbeat", Val(currentUser[t]).id, FALSE)
              /\ leaked' = [ leaked EXCEPT ![t] =
                               IF hbTimer[t] = "live"
                                 THEN @ \cup { Val(currentUser[t]).id } ELSE @ ]
              /\ hbTimer' = [ hbTimer EXCEPT ![t] = "live" ]
  /\ toggles < MaxToggles
  /\ toggles' = toggles + 1
  /\ UNCHANGED << calls, faults >>
  /\ UNCHANGED << clockVars, isStartingSession, nextId, completed, history, currentUser, allUsers,
                  uiVars, isJoining, isLeaving, savedUserId, pending >>

\* ------------------------------------------------------------------- join

\* joins that hold, or will ask for, a document id
JoinsInFlight == Cardinality(PendingOf("join", "create"))

\* joinRoom(name) up to its await addDoc(sessionsRef, newSession)
joinRoom(t, name) ==
  /\ Len(pending[t]) < MaxPending
  /\ nextId + JoinsInFlight <= MaxIds
  /\ isJoining' = [ isJoining EXCEPT ![t] = TRUE ]
  /\ isLoading' = [ isLoading EXCEPT ![t] = TRUE ]
  /\ error' = [ error EXCEPT ![t] = Null ]
  /\ pending' = [ pending EXCEPT ![t] =
                    Append(@, Op("join", "create", 0, Trim(name), NullTime, ClientNow, 0)) ]
  /\ inbox' = Resubscribe(inbox, t, sessions)
  /\ wrote' = Write(t, "joinRoom", "create", 0, hidden[t])
  /\ Call
  /\ isStartingSession' = [ isStartingSession EXCEPT ![t] = FALSE ]
  /\ UNCHANGED << clockVars, storeVars, currentUser, allUsers, showFeedbackModal,
                  sessionDuration, isLeaving, savedUserId, hbVars >>

\* variant: a form that passes on whatever was typed, trimmed
handleSubmitUnchecked(t, raw) ==
  /\ IsNull(currentUser[t]) /\ ~isJoining[t] /\ ~isLeaving[t]
  /\ joinRoom(t, Trim(raw))

\* Lobby.handleSubmit: the join form, shown while there is no user and no join or
\* leave in flight; a blank name is dropped, the trimmed name is passed on
handleSubmit(t, raw) ==
  /\ IsNull(currentUser[t]) /\ ~isJoining[t] /\ ~isLeaving[t]
  /\ IF Trim(raw) = << >>
       THEN Returned(t, "handleSubmit")
       ELSE joinRoom(t, Trim(raw))

\* the document joinRoom creates
NewSessionDoc(name) ==
  [ name |-> name, status |-> "idle", sessionStartTime |-> NullTime, lastSeen |-> now ]

\* the optimistic currentUser joinRoom sets once addDoc has returned the id
NewUser(i, o) ==
  [ id |-> i, name |-> o.name, status |-> "idle",
    sessionStartTime |-> NullTime, lastSeen |-> o.at ]

\* variant: a join that does not store the new id in localStorage
JoinResolveWithoutIdentity(t, k) ==
  /\ << t, k >> \in PendingOf("join", "create")
  /\ nextId <= MaxIds
  /\ LET o == pending[t][k]
         created == [ sessions EXCEPT ![nextId] = Some(NewSessionDoc(o.name)) ]
     IN /\ sessions' = HeartbeatApplied(created, nextId, TRUE)
        /\ inbox' = Resubscribe(Emit(inbox, sessions, created), t,
                                HeartbeatApplied(created, nextId, TRUE))
        /\ nextId' = nextId + 1
        /\ savedUserId' = savedUserId
        /\ currentUser' = [ currentUser EXCEPT ![t] = Some(NewUser(nextId, o)) ]
        /\ hbTimer' = [ hbTimer EXCEPT ![t] = EffectTimer(t, Some(NewUser(nextId, o))) ]
        /\ wrote' = Write(t, "joinRoom", "heartbeat", nextId, hidden[t])
  /\ isLoading' = [ isLoading EXCEPT ![t] = FALSE ]
  /\ isJoining' = [ isJoining EXCEPT ![t] = FALSE ]
  /\ pending' = [ pending EXCEPT ![t] = Drop(@, k) ]
  /\ NoCost
  /\ UNCHANGED << clockVars, isStartingSession, completed, history, allUsers, error, showFeedbackModal,
                  sessionDuration, isLeaving, hidden, leaked >>

\* joinRoom after addDoc resolved: identity stored, currentUser set, initial
\* heartbeat issued, flags cleared
JoinResolve(t, k) ==
  /\ << t, k >> \in PendingOf("join", "create")
  /\ nextId <= MaxIds
  /\ LET o == pending[t][k]
         created == [ sessions EXCEPT ![nextId] = Some(NewSessionDoc(o.name)) ]
     IN /\ sessions' = HeartbeatApplied(created, nextId, TRUE)
        /\ inbox' = Resubscribe(Emit(inbox, sessions, created), t,
                                HeartbeatApplied(created, nextId, TRUE))
        /\ nextId' = nextId + 1
        /\ savedUserId' = [ savedUserId EXCEPT ![t] = Some(nextId) ]
        /\ currentUser' = [ currentUser EXCEPT ![t] = Some(NewUser(nextId, o)) ]
        /\ hbTimer' = [ hbTimer EXCEPT ![t] = EffectTimer(t, Some(NewUser(nextId, o))) ]
        /\ wrote' = Write(t, "joinRoom", "heartbeat", nextId, hidden[t])
  /\ isLoading' = [ isLoading EXCEPT ![t] = FALSE ]
  /\ isJoining' = [ isJoining EXCEPT ![t] = FALSE ]
  /\ pending' = [ pending EXCEPT ![t] = Drop(@, k) ]
  /\ NoCost
  /\ UNCHANGED << clockVars, isStartingSession, completed, history, allUsers, error, showFeedbackModal,
                  sessionDuration, isLeaving, hidden, leaked >>

\* variant: a catch that forgets setIsJoining(false)
JoinFailStillJoining(t, k) ==
  /\ << t, k >> \in PendingOf("join", "create")
  /\ error' = [ error EXCEPT ![t] = Some("Failed to join room") ]
  /\ isLoading' = [ isLoading EXCEPT ![t] = FALSE ]
  /\ pending' = [ pending EXCEPT ![t] = Drop(@, k) ]
  /\ wrote' = NoWrite
  /\ Fault
  /\ UNCHANGED << clockVars, isStartingSession, storeVars, currentUser, allUsers, showFeedbackModal,
                  sessionDuration, isJoining, isLeaving, savedUserId, hbVars, inbox >>

\* joinRoom's catch: addDoc rejected
JoinFail(t, k) ==
  /\ << t, k >> \in PendingOf("join", "create")
  /\ error' = [ error EXCEPT ![t] = Some("Failed to join room") ]
  /\ isLoading' = [ isLoading EXCEPT ![t] = FALSE ]
  /\ isJoining' = [ isJoining EXCEPT ![t] = FALSE ]
  /\ pending' = [ pending EXCEPT ![t] = Drop(@, k) ]
  /\ inbox' = Resubscribe(inbox, t, sessions)
  /\ wrote' = NoWrite
  /\ Fault
  /\ isStartingSession' = [ isStartingSession EXCEPT ![t] = FALSE ]
  /\ UNCHANGED << clockVars, storeVars, currentUser, allUsers, showFeedbackModal,
                  sessionDuration, isLeaving, savedUserId, hbVars >>

\* ------------------------------------------------------------------ start

\* startSession up to its await updateDoc; without a user it returns at once
startSession(t) ==
  IF IsNull(currentUser[t])
    THEN Returned(t, "startSession")
    ELSE /\ Len(pending[t]) < MaxPending
         /\ pending' = [ pending EXCEPT ![t] =
              Append(@, Op("start", "update", Val(currentUser[t]).id,
                           Val(currentUser[t]).name, NullTime, NullTime, 0)) ]
         /\ wrote' = Write(t, "startSession", "start", Val(currentUser[t]).id, hidden[t])
         /\ Call
         /\ UNCHANGED << clockVars, isStartingSession, sessions, nextId, completed, history, currentUser,
                         allUsers, uiVars, isJoining, isLeaving, savedUserId, hbVars,
                         inbox >>

\* variant: a start that sets the status and leaves the start time alone
StartFieldsStatusOnly(d) ==
  [ d EXCEPT !.status = "active", !.lastSeen = now ]

\* variant: a start that leaves lastSeen to a later write
StartFieldsWithoutLastSeen(d) ==
  [ d EXCEPT !.status = "active", !.sessionStartTime = now ]

\* the fields startSession writes in its one updateDoc
StartFields(d) ==
  [ d EXCEPT !.status = "active", !.sessionStartTime = now, !.lastSeen = now ]

\* the updateDoc of startSession is applied and resolves
StartResolve(t, k) ==
  /\ << t, k >> \in PendingOf("start", "update")
  /\ ~IsNull(sessions[pending[t][k].id])
  /\ LET i == pending[t][k].id
         new == [ sessions EXCEPT ![i] = Some(StartFields(Val(@))) ]
     IN /\ sessions' = new
        /\ inbox' = Emit(inbox, sessions, new)
  /\ pending' = [ pending EXCEPT ![t] = Drop(@, k) ]
  /\ wrote' = NoWrite
  /\ NoCost
  /\ UNCHANGED << clockVars, isStartingSession, nextId, completed, history, currentUser,
                  allUsers, uiVars, isJoining, isLeaving, savedUserId, hbVars >>

\* startSession's catch: the updateDoc rejected (network, or no such document)
StartFail(t, k) ==
  /\ << t, k >> \in PendingOf("start", "update")
  /\ error' = [ error EXCEPT ![t] = Some("Failed to start session") ]
  /\ pending' = [ pending EXCEPT ![t] = Drop(@, k) ]
  /\ wrote' = NoWrite
  /\ Fault
  /\ isStartingSession' = [ isStartingSession EXCEPT ![t] = FALSE ]
  /\ UNCHANGED << clockVars, storeVars, currentUser, allUsers, isLoading,
                  showFeedbackModal, sessionDuration, isJoining, isLeaving,
                  savedUserId, hbVars, inbox >>

\* -------------------------------------------------------------------- end

\* the duration endSession and saveCompletedSession both compute
Duration(startTime, endTime) == FloorSeconds(endTime - startTime)

\* variant: a threshold one second too low
ShouldSaveFromFour(d) == ~(d < MinSavedSeconds - 1)

\* variant: an endSession that goes straight to its updateDoc
ShouldSaveNever(d) == FALSE

\* saveCompletedSession: sessions shorter than 5 seconds are not saved
ShouldSave(d) == ~(d < MinSavedSeconds)

\* the document saveCompletedSession appends; userId is the browser's own id
CompletedDoc(t, o) ==
  [ userId |-> t, userName |-> o.name, sessionDuration |-> Duration(o.start, o.at),
    startTime |-> o.start, endTime |-> o.at ]

\* appends to completed_sessions asked for and not yet answered
SavesInFlight == Cardinality(PendingOf("end", "save"))

\* variant: the guard of the hook before it checked the start time
EndReturnsWithoutUser(t) == IsNull(currentUser[t])

\* endSession's guard: no user, or no start time
EndReturnsEarly(t) ==
  IsNull(currentUser[t]) \/ Val(currentUser[t]).sessionStartTime = NullTime

\* endSession up to its first await that suspends: the duration is computed and
\* shown, then either the append of saveCompletedSession is awaited, or (session
\* too short to save) the updateDoc to idle
endSession(t) ==
  IF EndReturnsEarly(t)
    THEN Returned(t, "endSession")
    ELSE LET u == Val(currentUser[t])
             d == Duration(u.sessionStartTime, ClientNow)
         IN /\ Len(pending[t]) < MaxPending
            /\ sessionDuration' = [ sessionDuration EXCEPT ![t] = d ]
            /\ IF ShouldSave(d)
                 THEN /\ Len(completed) + SavesInFlight < MaxCompleted
                      /\ pending' = [ pending EXCEPT ![t] =
                           Append(@, Op("end", "save", u.id, u.name,
                                        u.sessionStartTime, ClientNow, d)) ]
                      /\ wrote' = NoWrite
                 ELSE /\ pending' = [ pending EXCEPT ![t] =
                           Append(@, Op("end", "update", u.id, u.name,
                                        u.sessionStartTime, ClientNow, d)) ]
                      /\ wrote' = Write(t, "endSession", "end", u.id, hidden[t])
            /\ Call
            /\ UNCHANGED << clockVars, isStartingSession, sessions, nextId, completed, history,
                            currentUser, allUsers, isLoading, error,
                            showFeedbackModal, isJoining, isLeaving, savedUserId,
                            hbVars, inbox >>

\* variant: a recorder that, when its append is rejected, removes the records of
\* the same user
EndSavedClearsOnFailure(t, k, ok) ==
  /\ << t, k >> \in PendingOf("end", "save")
  /\ Len(completed) < MaxCompleted
  /\ completed' = IF ok THEN Append(completed, CompletedDoc(t, pending[t][k]))
                        ELSE SelectSeq(completed, LAMBDA c : c.userId # t)
  /\ pending' = [ pending EXCEPT ![t][k].phase = "update" ]
  /\ wrote' = Write(t, "endSession", "end", pending[t][k].id, hidden[t])
  /\ IF ok THEN NoCost ELSE Fault
  /\ UNCHANGED << clockVars, isStartingSession, sessions, nextId, history, currentUser, allUsers,
                  uiVars, isJoining, isLeaving, savedUserId, hbVars, inbox >>

\* variant: a saveCompletedSession without its catch, so that a rejected append
\* lands in endSession's catch
EndSavedRethrows(t, k, ok) ==
  /\ << t, k >> \in PendingOf("end", "save")
  /\ Len(completed) < MaxCompleted
  /\ completed' = IF ok THEN Append(completed, CompletedDoc(t, pending[t][k]))
                        ELSE completed
  /\ pending' = [ pending EXCEPT ![t] =
                    IF ok THEN [ @ EXCEPT ![k].phase = "update" ] ELSE Drop(@, k) ]
  /\ error' = [ error EXCEPT ![t] =
                  IF ok THEN @ ELSE Some("Failed to end session") ]
  /\ wrote' = IF ok THEN Write(t, "endSession", "end", pending[t][k].id, hidden[t])
                    ELSE NoWrite
  /\ IF ok THEN NoCost ELSE Fault
  /\ UNCHANGED << clockVars, isStartingSession, sessions, nextId, history, currentUser,
                  allUsers, isLoading, showFeedbackModal, sessionDuration, isJoining,
                  isLeaving, savedUserId, hbVars, inbox >>

\* saveCompletedSession's addDoc resolved (ok) or rejected (logged, swallowed);
\* endSession goes on to its updateDoc either way
EndSaved(t, k, ok) ==
  /\ << t, k >> \in PendingOf("end", "save")
  /\ Len(completed) < MaxCompleted
  /\ completed' = IF ok THEN Append(completed, CompletedDoc(t, pending[t][k]))
                        ELSE completed
  /\ pending' = [ pending EXCEPT ![t][k].phase = "update" ]
  /\ wrote' = Write(t, "endSession", "end", pending[t][k].id, hidden[t])
  /\ IF ok THEN NoCost ELSE Fault
  /\ UNCHANGED << clockVars, isStartingSession, sessions, nextId, history, currentUser, allUsers,
                  uiVars, isJoining, isLeaving, savedUserId, hbVars, inbox >>

\* variant: an update to idle that leaves the start time in place
EndFieldsKeepsStart(d) == [ d EXCEPT !.status = "idle", !.lastSeen = now ]

\* the fields endSession writes in its updateDoc
EndFields(d) ==
  [ d EXCEPT !.status = "idle", !.sessionStartTime = NullTime, !.lastSeen = now ]

\* after the updateDoc: if (duration >= 30) setShowFeedbackModal(true)
ShowsFeedback(d) == d >= FeedbackSeconds

\* the updateDoc of endSession is applied and resolves
EndResolve(t, k) ==
  /\ << t, k >> \in PendingOf("end", "update")
  /\ ~IsNull(sessions[pending[t][k].id])
  /\ LET i == pending[t][k].id
         new == [ sessions EXCEPT ![i] = Some(EndFields(Val(@))) ]
     IN /\ sessions' = new
        /\ inbox' = Emit(inbox, sessions, new)
  /\ showFeedbackModal' = [ showFeedbackModal EXCEPT ![t] =
                              IF ShowsFeedback(pending[t][k].dur) THEN TRUE ELSE @ ]
  /\ pending' = [ pending EXCEPT ![t] = Drop(@, k) ]
  /\ wrote' = NoWrite
  /\ NoCost
  /\ UNCHANGED << clockVars, isStartingSession, nextId, completed, history, currentUser,
                  allUsers, isLoading, error, sessionDuration, isJoining, isLeaving,
                  savedUserId, hbVars >>

\* endSession's catch: the updateDoc rejected
EndFail(t, k) ==
  /\ << t, k >> \in PendingOf("end", "update")
  /\ error' = [ error EXCEPT ![t] = Some("Failed to end session") ]
  /\ pending' = [ pending EXCEPT ![t] = Drop(@, k) ]
  /\ wrote' = NoWrite
  /\ Fault
  /\ isStartingSession' = [ isStartingSession EXCEPT ![t] = FALSE ]
  /\ UNCHANGED << clockVars, storeVars, currentUser, allUsers, isLoading,
                  showFeedbackModal, sessionDuration, isJoining, isLeaving,
                  savedUserId, hbVars, inbox >>

\* closeFeedbackModal
closeFeedbackModal(t) ==
  /\ showFeedbackModal[t]
  /\ showFeedbackModal' = [ showFeedbackModal EXCEPT ![t] = FALSE ]
  /\ sessionDuration' = [ sessionDuration EXCEPT ![t] = 0 ]
  /\ wrote' = NoWrite
  /\ NoCost
  /\ UNCHANGED << clockVars, isStartingSession, storeVars, currentUser, allUsers, isLoading, error,
                  isJoining, isLeaving, savedUserId, hbVars, inbox, pending >>

\* ------------------------------------------------------------------ leave

\* archives asked for and not yet answered
ArchivesInFlight == Cardinality(PendingOf("leave", "archive"))

\* the document archiveSession appends to session_history (without its clock
\* readings sessionEndTime, sessionDuration and leftAt)
HistoryDoc(o) ==
  [ originalSessionId |-> o.id, name |-> o.name, sessionStartTime |-> o.start,
    completedSession |-> o.start # NullTime ]

\* variant: a leave that removes the identity only once the archive is done
leaveRoomKeepsIdentity(t) ==
  /\ ~IsNull(currentUser[t])
  /\ Len(pending[t]) < MaxPending
  /\ Len(history) + ArchivesInFlight < MaxHistory
  /\ isLeaving' = [ isLeaving EXCEPT ![t] = TRUE ]
  /\ currentUser' = [ currentUser EXCEPT ![t] = Null ]
  /\ hbTimer' = [ hbTimer EXCEPT ![t] = "none" ]
  /\ pending' = [ pending EXCEPT ![t] =
       Append(@, Op("leave", "archive", Val(currentUser[t]).id, Val(currentUser[t]).name,
                    Val(currentUser[t]).sessionStartTime, NullTime, 0)) ]
  /\ inbox' = Resubscribe(inbox, t, sessions)
  /\ wrote' = NoWrite
  /\ Call
  /\ UNCHANGED << clockVars, isStartingSession, storeVars, allUsers, uiVars, isJoining, savedUserId,
                  hidden, leaked >>

\* leaveRoom up to archiveSession's await addDoc(session_history); without a user
\* it returns at once
leaveRoom(t) ==
  IF IsNull(currentUser[t])
    THEN Returned(t, "leaveRoom")
    ELSE LET u == Val(currentUser[t])
         IN /\ Len(pending[t]) < MaxPending
            /\ Len(history) + ArchivesInFlight < MaxHistory
            /\ isLeaving' = [ isLeaving EXCEPT ![t] = TRUE ]
            /\ currentUser' = [ currentUser EXCEPT ![t] = Null ]
            /\ savedUserId' = [ savedUserId EXCEPT ![t] = Null ]
            /\ hbTimer' = [ hbTimer EXCEPT ![t] = EffectTimer(t, Null) ]
            /\ pending' = [ pending EXCEPT ![t] =
                 Append(@, Op("leave", "archive", u.id, u.name, u.sessionStartTime,
                              NullTime, 0)) ]
            /\ inbox' = Resubscribe(inbox, t, sessions)
            /\ wrote' = NoWrite
            /\ Call
            /\ UNCHANGED << clockVars, isStartingSession, storeVars, allUsers, uiVars, isJoining,
                            hidden, leaked >>

\* variant: an archive that deletes the presence document without waiting for
\* the history document
ArchiveDeletesFirst(t, k) ==
  /\ << t, k >> \in PendingOf("leave", "archive")
  /\ LET new == [ sessions EXCEPT ![pending[t][k].id] = Null ]
     IN /\ sessions' = new
        /\ inbox' = Emit(inbox, sessions, new)
  /\ history' = Append(history, HistoryDoc(pending[t][k]))
  /\ pending' = [ pending EXCEPT ![t][k].phase = "delete" ]
  /\ wrote' = Write(t, "leaveRoom", "delete", pending[t][k].id, hidden[t])
  /\ NoCost
  /\ UNCHANGED << clockVars, isStartingSession, nextId, completed, currentUser, allUsers,
                  uiVars, isJoining, isLeaving, savedUserId, hbVars >>

\* archiveSession: the history document is added, then the deleteDoc is issued
ArchiveResolve(t, k) ==
  /\ << t, k >> \in PendingOf("leave", "archive")
  /\ history' = Append(history, HistoryDoc(pending[t][k]))
  /\ pending' = [ pending EXCEPT ![t][k].phase = "delete" ]
  /\ wrote' = Write(t, "leaveRoom", "delete", pending[t][k].id, hidden[t])
  /\ NoCost
  /\ UNCHANGED << clockVars, isStartingSession, sessions, nextId, completed, currentUser, allUsers,
                  uiVars, isJoining, isLeaving, savedUserId, hbVars, inbox >>

\* archiveSession resolved: the presence document is deleted; setIsLeaving(false)
LeaveResolve(t, k) ==
  /\ << t, k >> \in PendingOf("leave", "delete")
  /\ LET new == [ sessions EXCEPT ![pending[t][k].id] = Null ]
     IN /\ sessions' = new
        /\ inbox' = Resubscribe(Emit(inbox, sessions, new), t, new)
  /\ isLeaving' = [ isLeaving EXCEPT ![t] = FALSE ]
  /\ pending' = [ pending EXCEPT ![t] = Drop(@, k) ]
  /\ wrote' = NoWrite
  /\ NoCost
  /\ UNCHANGED << clockVars, isStartingSession, nextId, completed, history, currentUser,
                  allUsers, uiVars, isJoining, savedUserId, hbVars >>

\* variant: a catch that forgets setIsLeaving(false)
LeaveFailStillLeaving(t, k) ==
  /\ \/ << t, k >> \in PendingOf("leave", "archive")
     \/ << t, k >> \in PendingOf("leave", "delete")
  /\ error' = [ error EXCEPT ![t] = Some("Failed to leave room") ]
  /\ pending' = [ pending EXCEPT ![t] = Drop(@, k) ]
  /\ wrote' = NoWrite
  /\ Fault
  /\ isStartingSession' = [ isStartingSession EXCEPT ![t] = FALSE ]
  /\ UNCHANGED << clockVars, storeVars, currentUser, allUsers, isLoading,
                  showFeedbackModal, sessionDuration, isJoining, isLeaving,
                  savedUserId, hbVars, inbox >>

\* archiveSession threw (its addDoc or its deleteDoc rejected): leaveRoom's catch
LeaveFail(t, k) ==
  /\ \/ << t, k >> \in PendingOf("leave", "archive")
     \/ << t, k >> \in PendingOf("leave", "delete")
  /\ error' = [ error EXCEPT ![t] = Some("Failed to leave room") ]
  /\ isLeaving' = [ isLeaving EXCEPT ![t] = FALSE ]
  /\ pending' = [ pending EXCEPT ![t] = Drop(@, k) ]
  /\ inbox' = Resubscribe(inbox, t, sessions)
  /\ wrote' = NoWrite
  /\ Fault
  /\ isStartingSession' = [ isStartingSession EXCEPT ![t] = FALSE ]
  /\ UNCHANGED << clockVars, storeVars, currentUser, allUsers, isLoading,
                  showFeedbackModal, sessionDuration, isJoining, savedUserId, hbVars >>

\* --------------------------------------------------------------- listener

\* variant: a listener that holds back during a leave only
SuppressedByLeave(t) == isLeaving[t]

\* the listener leaves currentUser alone while a join or a leave is in flight
Suppressed(t) == isJoining[t] \/ isLeaving[t]

\* variant: an updater that refreshes a user it has and never adopts one
ReconcileNeverAdopts(prev, savedUser) ==
  IF IsNull(prev) THEN prev ELSE Some(savedUser)

\* variant: an updater that keeps the user it has
KeepCurrent(prev, savedUser) == IF IsNull(prev) THEN Some(savedUser) ELSE prev

\* variant: an updater that always takes the record found
ReconcileAlways(prev, savedUser) == Some(savedUser)

\* the setCurrentUser updater: the record found replaces the current one only if
\* id, status, name or start instant differ
Reconcile(prev, savedUser) ==
  IF IsNull(prev)
       \/ Val(prev).id # savedUser.id
       \/ Val(prev).status # savedUser.status
       \/ Val(prev).name # savedUser.name
    THEN Some(savedUser)
    ELSE IF MillisOrNull(Val(prev).sessionStartTime)
              # MillisOrNull(savedUser.sessionStartTime)
           THEN Some(savedUser)
           ELSE prev

\* what the listener makes of currentUser, given the snapshot
FromSnapshot(t, snap) ==
  IF Suppressed(t) \/ IsNull(savedUserId[t])
    THEN currentUser[t]
    ELSE IF Find(snap, Val(savedUserId[t])) # {}
           THEN Reconcile(currentUser[t],
                          CHOOSE u \in Find(snap, Val(savedUserId[t])) : TRUE)
           ELSE Null

\* variant: a listener that never removes the stored identity
KeepIdentity(t, snap) == savedUserId[t]

\* what the listener makes of the stored identity: removed when the record is gone
IdentityFromSnapshot(t, snap) ==
  IF Suppressed(t) \/ IsNull(savedUserId[t]) \/ Find(snap, Val(savedUserId[t])) # {}
    THEN savedUserId[t]
    ELSE Null

\* variant: a listener that also leaves allUsers alone while suppressed
UsersUnlessSuppressed(t, snap) == IF Suppressed(t) THEN allUsers[t] ELSE snap

\* what the listener makes of allUsers: setAllUsers(sessions), before and
\* whatever the test of isJoining and isLeaving
UsersFromSnapshot(t, snap) == snap

\* variant: a Lobby without the effect that resets isStartingSession
StillStartingForever(t, user) == isStartingSession[t]

\* Lobby's effect on currentUser: isStartingSession is reset once the user is
\* 'active' with a start time
StillStarting(t, user) ==
  IF ~IsNull(user) /\ Val(user).status = "active"
                   /\ Val(user).sessionStartTime # NullTime
    THEN FALSE
    ELSE isStartingSession[t]

\* the onSnapshot callback on the oldest undelivered snapshot
Deliver(t) ==
  /\ inbox[t] # << >>
  /\ LET snap == Head(inbox[t])
     IN /\ allUsers' = [ allUsers EXCEPT ![t] = UsersFromSnapshot(t, snap) ]
        /\ currentUser' = [ currentUser EXCEPT ![t] = FromSnapshot(t, snap) ]
        /\ savedUserId' = [ savedUserId EXCEPT ![t] = IdentityFromSnapshot(t, snap) ]
        /\ hbTimer' = [ hbTimer EXCEPT ![t] = EffectTimer(t, FromSnapshot(t, snap)) ]
  /\ isLoading' = [ isLoading EXCEPT ![t] = FALSE ]
  /\ error' = [ error EXCEPT ![t] = Null ]
  /\ inbox' = [ inbox EXCEPT ![t] = Tail(@) ]
  /\ wrote' = NoWrite
  /\ NoCost
  /\ isStartingSession' = [ isStartingSession EXCEPT ![t] =
                              StillStarting(t, FromSnapshot(t, Head(inbox[t]))) ]
  /\ UNCHANGED << clockVars, storeVars, showFeedbackModal, sessionDuration,
                  isJoining, isLeaving, hidden, leaked, pending >>

\* the page is reloaded while no handler is suspended: the hook's state is
\* initial again, localStorage is kept, timers are gone, the listener is new
Reload(t) ==
  /\ pending[t] = << >>
  /\ Call
  /\ currentUser' = [ currentUser EXCEPT ![t] = Null ]
  /\ allUsers' = [ allUsers EXCEPT ![t] = {} ]
  /\ isLoading' = [ isLoading EXCEPT ![t] = TRUE ]
  /\ error' = [ error EXCEPT ![t] = Null ]
  /\ showFeedbackModal' = [ showFeedbackModal EXCEPT ![t] = FALSE ]
  /\ sessionDuration' = [ sessionDuration EXCEPT ![t] = 0 ]
  /\ isJoining' = [ isJoining EXCEPT ![t] = FALSE ]
  /\ isLeaving' = [ isLeaving EXCEPT ![t] = FALSE ]
  /\ hbTimer' = [ hbTimer EXCEPT ![t] = "none" ]
  /\ leaked' = [ leaked EXCEPT ![t] = {} ]
  /\ inbox' = Resubscribe(inbox, t, sessions)
  /\ wrote' = NoWrite
  /\ isStartingSession' = [ isStartingSession EXCEPT ![t] = FALSE ]
  /\ UNCHANGED << clockVars, storeVars, savedUserId, hidden, pending >>

\* useFirebaseSession's return: totalOnline
totalOnline(t) == Cardinality(allUsers[t])

\* ------------------------------------------------------------ environment

\* the stale-session janitor outside the client removes a presence record
Evict(i) ==
  /\ ~IsNull(sessions[i])
  /\ sessions' = [ sessions EXCEPT ![i] = Null ]
  /\ inbox' = Emit(inbox, sessions, [ sessions EXCEPT ![i] = Null ])
  /\ wrote' = NoWrite
  /\ Fault
  /\ UNCHANGED << clockVars, isStartingSession, nextId, completed, history, currentUser,
                  allUsers, uiVars, isJoining, isLeaving, savedUserId, hbVars,
                  pending >>

\* time passes
Tick ==
  /\ ticks < MaxTicks
  /\ \E d \in TickSteps : now' = now + d
  /\ ticks' = ticks + 1
  /\ wrote' = NoWrite
  /\ NoCost
  /\ UNCHANGED << lag, storeVars, currentUser, allUsers, uiVars, isJoining,
                  isLeaving, isStartingSession, savedUserId, hbVars, inbox, pending >>

\* a tab's user calls a handler of the hook
UserCall(t) ==
  \/ \E raw \in RawNames(t) : handleSubmit(t, raw)
  \/ startSession(t)
  \/ endSession(t)
  \/ leaveRoom(t)
  \/ closeFeedbackModal(t)
  \/ Reload(t)

\* a remote operation a tab awaits resolves
Resolved(t) ==
  \E k \in 1..MaxPending :
    \/ JoinResolve(t, k)
    \/ StartResolve(t, k)
    \/ EndSaved(t, k, TRUE)
    \/ EndResolve(t, k)
    \/ ArchiveResolve(t, k)
    \/ LeaveResolve(t, k)

\* a remote operation a tab awaits fails
Rejected(t) ==
  \E k \in 1..MaxPending :
    \/ JoinFail(t, k)
    \/ StartFail(t, k)
    \/ EndSaved(t, k, FALSE)
    \/ EndFail(t, k)
    \/ LeaveFail(t, k)

\* clients and server agree on the time
InitVisible == Init /\ lag = 0

\* time passes by one study interval, long enough to be saved and to prompt
LongTick == Tick /\ now' - now = 40000

\* the hook of every tab against the shared store, all tabs visible
Next ==
  \/ LongTick
  \/ \E i \in Ids : Evict(i)
  \/ \E t \in Tabs :
       \/ UserCall(t)
       \/ Resolved(t)
       \/ Rejected(t)
       \/ Deliver(t)
       \/ IntervalTick(t)

Spec == InitVisible /\ [][Next]_vars

\* ------------------------------------------------------- a room in session

\* every tab has joined under its name and has seen the snapshot that shows it
InitRoom ==
  LET room == [ i \in Ids |->
                  IF i \in Tabs
                    THEN Some([ name |-> << NameOf(i) >>, status |-> "idle",
                                sessionStartTime |-> NullTime,
                                lastSeen |-> StartOfTime ])
                    ELSE Null ]
  IN /\ now = StartOfTime
     /\ ticks = 0
     /\ lag \in ClientLags
     /\ calls = 0
     /\ faults = 0
     /\ toggles = 0
     /\ sessions = room
     /\ nextId = NumTabs + 1
     /\ completed = << >>
     /\ history = << >>
     /\ wrote = NoWrite
     /\ currentUser = [ t \in Tabs |-> Some(ToSession(t, Val(room[t]))) ]
     /\ allUsers = [ t \in Tabs |-> Snapshot(room) ]
     /\ isLoading = [ t \in Tabs |-> FALSE ]
     /\ error = [ t \in Tabs |-> Null ]
     /\ showFeedbackModal = [ t \in Tabs |-> FALSE ]
     /\ sessionDuration = [ t \in Tabs |-> 0 ]
     /\ isJoining = [ t \in Tabs |-> FALSE ]
     /\ isLeaving = [ t \in Tabs |-> FALSE ]
     /\ isStartingSession = [ t \in Tabs |-> FALSE ]
     /\ savedUserId = [ t \in Tabs |-> Some(t) ]
     /\ hidden = [ t \in Tabs |-> FALSE ]
     /\ hbTimer = [ t \in Tabs |-> "live" ]
     /\ leaked = [ t \in Tabs |-> {} ]
     /\ inbox = [ t \in Tabs |-> << >> ]
     /\ pending = [ t \in Tabs |-> << >> ]

\* study intervals: start and end, their remote operations, the listener
NextRoom ==
  \/ Tick
  \/ \E t \in Tabs :
       \/ startSession(t)
       \/ endSession(t)
       \/ closeFeedbackModal(t)
       \/ Deliver(t)
       \/ \E k \in 1..MaxPending :
            \/ StartResolve(t, k)
            \/ StartFail(t, k)
            \/ \E ok \in BOOLEAN : EndSaved(t, k, ok)
            \/ EndResolve(t, k)
            \/ EndFail(t, k)

SpecRoom == InitRoom /\ [][NextRoom]_vars

\* the same room, where every snapshot emitted is eventually delivered
FairRoom ==
  /\ SpecRoom
  /\ \A t \in Tabs : WF_vars(Deliver(t))

\* ------------------------------------------------- heartbeat and visibility

\* presence of every tab with tabs hidden and shown, interval timers firing
NextHeartbeat ==
  \/ \E i \in Ids : Evict(i)
  \/ \E t \in Tabs :
       \/ \E raw \in RawNames(t) : handleSubmit(t, raw)
       \/ startSession(t)
       \/ leaveRoom(t)
       \/ Deliver(t)
       \/ handleVisibilityChange(t)
       \/ IntervalTick(t)
       \/ \E i \in Ids : LeakedTick(t, i)
       \/ \E k \in 1..MaxPending :
            \/ JoinResolve(t, k)
            \/ StartResolve(t, k)
            \/ ArchiveResolve(t, k)
            \/ LeaveResolve(t, k)

SpecHeartbeat == InitVisible /\ [][NextHeartbeat]_vars

\* ------------------------------------------------------ the Lobby's controls

\* StudyApp renders the Lobby unless there is an error or isLoading; the Lobby
\* shows its controls unless a join or a leave is in flight
LobbyShown(t) ==
  IsNull(error[t]) /\ ~isLoading[t] /\ ~isJoining[t] /\ ~isLeaving[t]

\* variant: a page that goes by the status alone
StartShownByStatus(t) == Val(currentUser[t]).status = "idle"

\* which of Start and End the Lobby shows: Start while idle or without start time
StartShown(t) ==
  Val(currentUser[t]).status = "idle" \/ Val(currentUser[t]).sessionStartTime = NullTime

\* the Leave Room button is disabled while 'active' with a start time
LeaveDisabled(t) ==
  Val(currentUser[t]).status = "active" /\ Val(currentUser[t]).sessionStartTime # NullTime

\* the join form is submitted
onSubmit(t) ==
  /\ LobbyShown(t)
  /\ \E raw \in RawNames(t) : handleSubmit(t, raw)

\* Lobby.handleStartSession: the Start button, disabled while isStartingSession
handleStartSession(t) ==
  /\ LobbyShown(t)
  /\ ~IsNull(currentUser[t])
  /\ StartShown(t)
  /\ ~isStartingSession[t]
  /\ Len(pending[t]) < MaxPending
  /\ pending' = [ pending EXCEPT ![t] =
       Append(@, Op("start", "update", Val(currentUser[t]).id,
                    Val(currentUser[t]).name, NullTime, NullTime, 0)) ]
  /\ isStartingSession' = [ isStartingSession EXCEPT ![t] = TRUE ]
  /\ wrote' = Write(t, "startSession", "start", Val(currentUser[t]).id, hidden[t])
  /\ Call
  /\ UNCHANGED << clockVars, storeVars, currentUser, allUsers, uiVars, isJoining,
                  isLeaving, savedUserId, hbVars, inbox >>

\* the End Session button
onEndSession(t) ==
  /\ LobbyShown(t)
  /\ ~IsNull(currentUser[t])
  /\ ~StartShown(t)
  /\ endSession(t)

\* the Leave Room button
onLeaveRoom(t) ==
  /\ LobbyShown(t)
  /\ ~IsNull(currentUser[t])
  /\ ~LeaveDisabled(t)
  /\ leaveRoom(t)

\* the hook driven through the page: only controls that are shown and enabled
NextLobby ==
  \/ LongTick
  \/ \E t \in Tabs :
       \/ onSubmit(t)
       \/ handleStartSession(t)
       \/ onEndSession(t)
       \/ onLeaveRoom(t)
       \/ closeFeedbackModal(t)
       \/ Reload(t)
       \/ Resolved(t)
       \/ Rejected(t)
       \/ Deliver(t)

SpecLobby == Init /\ [][NextLobby]_vars

\* the same page, where a snapshot emitted is eventually delivered and a remote
\* operation awaited is eventually answered
FairLobby ==
  /\ SpecLobby
  /\ \A t \in Tabs : WF_vars(Deliver(t))
  /\ \A t \in Tabs : WF_vars(Resolved(t) \/ Rejected(t))

\* ------------------------------------------------ records as they are shown

\* UserList: a row shows the green dot and a running Timer only if isStudying
isStudying(user) == user.status = "active" /\ user.sessionStartTime # NullTime

\* a room of joined tabs whose records hold any status with or without a start
\* time: the store is written by other parties too, and a Session may carry
\* any of the two statuses with a Timestamp or null
InitUntrusted ==
  /\ \E st \in [ Tabs -> { "idle", "active" } ] :
       \E ss \in [ Tabs -> { NullTime, StartOfTime } ] :
         /\ sessions = [ i \in Ids |->
                           IF i \in Tabs
                             THEN Some([ name |-> << NameOf(i) >>, status |-> st[i],
                                         sessionStartTime |-> ss[i],
                                         lastSeen |-> StartOfTime ])
                             ELSE Null ]
  /\ currentUser = [ t \in Tabs |-> Some(ToSession(t, Val(sessions[t]))) ]
  /\ allUsers = [ t \in Tabs |-> Snapshot(sessions) ]
  /\ now = StartOfTime
  /\ ticks = 0
  /\ lag = 0
  /\ calls = 0
  /\ faults = 0
  /\ toggles = 0
  /\ nextId = NumTabs + 1
  /\ completed = << >>
  /\ history = << >>
  /\ wrote = NoWrite
  /\ isLoading = [ t \in Tabs |-> FALSE ]
  /\ error = [ t \in Tabs |-> Null ]
  /\ showFeedbackModal = [ t \in Tabs |-> FALSE ]
  /\ sessionDuration = [ t \in Tabs |-> 0 ]
  /\ isJoining = [ t \in Tabs |-> FALSE ]
  /\ isLeaving = [ t \in Tabs |-> FALSE ]
  /\ isStartingSession = [ t \in Tabs |-> FALSE ]
  /\ savedUserId = [ t \in Tabs |-> Some(t) ]
  /\ hidden = [ t \in Tabs |-> FALSE ]
  /\ hbTimer = [ t \in Tabs |-> "live" ]
  /\ leaked = [ t \in Tabs |-> {} ]
  /\ inbox = [ t \in Tabs |-> << >> ]
  /\ pending = [ t \in Tabs |-> << >> ]

\* the session controls of the page on such a room
NextDisplay ==
  \/ LongTick
  \/ \E t \in Tabs :
       \/ handleStartSession(t)
       \/ onEndSession(t)
       \/ onLeaveRoom(t)
       \/ closeFeedbackModal(t)
       \/ Deliver(t)
       \/ \E k \in 1..MaxPending :
            \/ StartResolve(t, k)
            \/ StartFail(t, k)
            \/ \E ok \in BOOLEAN : EndSaved(t, k, ok)
            \/ EndResolve(t, k)
            \/ EndFail(t, k)
            \/ ArchiveResolve(t, k)
            \/ LeaveResolve(t, k)
            \/ LeaveFail(t, k)

SpecDisplay == InitUntrusted /\ [][NextDisplay]_vars

\* ------------------------------------------------------------------ claims

\* C1: in every reachable state of the store, whatever joins, starts, ends,
\* leaves and heartbeats the tabs have interleaved, every presence record is
\* 'active' if and only if its sessionStartTime is not null
StatusMatchesStartTime ==
  \A i \in Ids :
    ~IsNull(sessions[i]) =>
      ( Val(sessions[i]).status = "active"
          <=> Val(sessions[i]).sessionStartTime # NullTime )

\* two records side by side, one in a session and one idle
OneActiveOneIdle ==
  \E i, j \in Ids :
    /\ ~IsNull(sessions[i]) /\ ~IsNull(sessions[j])
    /\ Val(sessions[i]).status = "active"
    /\ Val(sessions[i]).sessionStartTime # NullTime
    /\ Val(sessions[j]).status = "idle"

\* C2: while isJoining is true, the delivery of a snapshot, whatever records it
\* holds, leaves currentUser as it was
JoiningSuppressesListener ==
  [][ \A t \in Tabs :
        (isJoining[t] /\ Deliver(t)) => currentUser'[t] = currentUser[t] ]_vars

\* a join in flight has been shown a snapshot that holds the record of the
\* identity in localStorage, and currentUser is still null
JoiningSawOwnRecord ==
  \E t \in Tabs :
    /\ isJoining[t]
    /\ ~isLoading[t]
    /\ ~IsNull(savedUserId[t])
    /\ Find(allUsers[t], Val(savedUserId[t])) # {}
    /\ IsNull(currentUser[t])

\* C3: for one start of a session, however often endSession is called (a second
\* call before the first one's snapshot has come back, a retry after the update
\* failed), at most one completed record with that start time is appended
OneRecordPerInterval ==
  \A i, j \in 1..Len(completed) :
    ( completed[i].userId = completed[j].userId
        /\ completed[i].startTime = completed[j].startTime ) => i = j

\* C4: endSession called with no user, or with a user without start time, does
\* nothing: no write to the presence record, no append, no error, and currentUser,
\* sessionDuration and showFeedbackModal stay as they were
EndSessionWithoutSessionIsNoOp ==
  [][ \A t \in Tabs :
        ( /\ IsNull(currentUser[t]) \/ Val(currentUser[t]).sessionStartTime = NullTime
          /\ endSession(t) )
        => /\ wrote'.kind = "none"
           /\ UNCHANGED << sessions, completed, pending, error, currentUser,
                           sessionDuration, showFeedbackModal >> ]_vars

\* endSession has just returned at its guard for a user who is in the room
EndSessionReturnedForIdleUser ==
  /\ wrote.by = "endSession"
  /\ wrote.kind = "none"
  /\ ~IsNull(currentUser[wrote.tab])
  /\ Val(currentUser[wrote.tab]).sessionStartTime = NullTime
  /\ pending[wrote.tab] = << >>

\* C5: when joinRoom's create has succeeded, currentUser is set at once, to the
\* trimmed name, 'idle', no start time and the id the store returned; that id is
\* the identity in localStorage; the record created has the same name, 'idle'
\* and no start time
JoinSetsUserAtOnce ==
  ( wrote.by = "joinRoom" /\ wrote.kind = "heartbeat" ) =>
    LET t == wrote.tab
        i == wrote.id
    IN /\ ~IsNull(currentUser[t])
       /\ Val(currentUser[t]).id = i
       /\ Val(currentUser[t]).name = << NameOf(t) >>
       /\ Val(currentUser[t]).status = "idle"
       /\ Val(currentUser[t]).sessionStartTime = NullTime
       /\ savedUserId[t] = Some(i)
       /\ ~IsNull(sessions[i])
       /\ Val(sessions[i]).name = << NameOf(t) >>
       /\ Val(sessions[i]).status = "idle"
       /\ Val(sessions[i]).sessionStartTime = NullTime

\* a join has just succeeded and the tab's list does not show its record yet
JoinedBeforeSnapshot ==
  /\ wrote.by = "joinRoom"
  /\ wrote.kind = "heartbeat"
  /\ ~IsNull(currentUser[wrote.tab])
  /\ Find(allUsers[wrote.tab], wrote.id) = {}

\* C6: when the create of joinRoom fails, currentUser is null afterwards, no
\* identity has been written to localStorage, isJoining is false and an error
\* is shown: a failed join leaves no currentUser without a remote record
FailedJoinRollsBack ==
  [][ \A t \in Tabs : \A k \in 1..MaxPending :
        JoinFail(t, k)
        => /\ IsNull(currentUser'[t])
           /\ savedUserId'[t] = savedUserId[t]
           /\ ~isJoining'[t]
           /\ ~IsNull(error'[t])
           /\ sessions' = sessions ]_vars

\* a join has failed: the error is shown, there is no user and no identity
JoinHasFailed ==
  \E t \in Tabs :
    /\ error[t] = Some("Failed to join room")
    /\ IsNull(currentUser[t])
    /\ IsNull(savedUserId[t])
    /\ ~isJoining[t]

\* C7: the recorder asks for an append exactly when floor((endTime - startTime)
\* / 1000) >= 5, and the record appended carries that floor as sessionDuration;
\* no record has a sessionDuration below 5, also when the start time given by
\* the server is ahead of the client's clock
RecorderKeepsFiveSecondsAndMore ==
  /\ [] ( \A j \in 1..Len(completed) :
            /\ completed[j].sessionDuration >= 5
            /\ completed[j].sessionDuration * 1000
                 <= completed[j].endTime - completed[j].startTime
            /\ completed[j].endTime - completed[j].startTime
                 < (completed[j].sessionDuration + 1) * 1000 )
  /\ [][ \A t \in Tabs :
           ( /\ ~IsNull(currentUser[t])
             /\ Val(currentUser[t]).sessionStartTime # NullTime
             /\ endSession(t) )
           => ( pending'[t][Len(pending'[t])].phase = "save"
                  <=> (now - lag) - Val(currentUser[t]).sessionStartTime >= 5000 ) ]_vars
  /\ [][ \A t \in Tabs : \A k \in 1..MaxPending :
           EndSaved(t, k, TRUE)
           => /\ Len(completed') = Len(completed) + 1
              /\ completed'[Len(completed')].startTime = pending[t][k].start
              /\ completed'[Len(completed')].endTime = pending[t][k].at ]_vars

\* a session of 125 s has been recorded with sessionDuration 125
Recorded125Seconds ==
  \E j \in 1..Len(completed) :
    /\ completed[j].sessionDuration = 125
    /\ completed[j].endTime - completed[j].startTime = 125000

\* C8: a snapshot delivered while neither a join nor a leave is in flight, with
\* an identity in localStorage whose record is not in the snapshot, makes
\* currentUser null and removes the identity
EvictionClearsIdentity ==
  [][ \A t \in Tabs :
        ( /\ Deliver(t)
          /\ ~isJoining[t] /\ ~isLeaving[t]
          /\ ~IsNull(savedUserId[t])
          /\ Find(Head(inbox[t]), Val(savedUserId[t])) = {} )
        => IsNull(currentUser'[t]) /\ IsNull(savedUserId'[t]) ]_vars

\* the one record ever created was evicted, and its tab has taken notice
EvictedAndCleared ==
  /\ nextId = 2
  /\ faults = 1
  /\ history = << >>
  /\ \A i \in Ids : IsNull(sessions[i])
  /\ \A t \in Tabs : /\ IsNull(currentUser[t])
                     /\ IsNull(savedUserId[t])
                     /\ pending[t] = << >>

\* C9: no heartbeat write is issued while the tab is hidden, whatever happens to
\* currentUser meanwhile; when the tab is shown again with a user, a heartbeat
\* write is issued at once
NoHeartbeatWhileHidden ==
  /\ wrote.kind = "heartbeat" => ~wrote.hidden
  /\ ( /\ wrote.by = "handleVisibilityChange"
       /\ ~wrote.hidden
       /\ ~IsNull(currentUser[wrote.tab]) ) => wrote.kind = "heartbeat"

\* C10: in a room of two, once the start of one is applied, the latest snapshot
\* sent to the other (its list, if it has taken them all) shows the record
\* 'active' with a start time; once an end 40 s after
\* the start has saved its record, a completed record of sessionDuration 40
\* under that name exists; and the other's list comes to show what the store
\* holds: 'active' after the start, 'idle' after the end
OtherTabFollows ==
  /\ [][ \A a, b \in Tabs : \A k \in 1..MaxPending :
           ( a # b /\ StartResolve(a, k) )
           => \E u \in ( IF inbox'[b] # << >> THEN inbox'[b][Len(inbox'[b])]
                                               ELSE allUsers'[b] ) :
                /\ u.id = pending[a][k].id
                /\ u.status = "active"
                /\ u.sessionStartTime # NullTime ]_vars
  /\ [][ \A a \in Tabs : \A k \in 1..MaxPending :
           ( EndSaved(a, k, TRUE) /\ pending[a][k].at - pending[a][k].start = 40000 )
           => \E j \in 1..Len(completed') :
                /\ completed'[j].userName = << NameOf(a) >>
                /\ completed'[j].sessionDuration = 40 ]_vars
  /\ \A a, b \in Tabs :
       /\ ( Val(sessions[a]).status = "active" )
            ~> ( \/ \E u \in allUsers[b] : u.id = a /\ u.status = "active"
                                            /\ u.sessionStartTime # NullTime
                 \/ Val(sessions[a]).status # "active" )
       /\ ( Val(sessions[a]).status = "idle" )
            ~> ( \/ \E u \in allUsers[b] : u.id = a /\ u.status = "idle"
                 \/ Val(sessions[a]).status # "idle" )

\* one tab's 40 s are recorded and the other tab's list shows it idle again
SawIdleAfterFortySeconds ==
  \E a, b \in Tabs :
    /\ a # b
    /\ \E j \in 1..Len(completed) :
         completed[j].userId = a /\ completed[j].sessionDuration = 40
    /\ Val(sessions[a]).status = "idle"
    /\ inbox[b] = << >>
    /\ \E u \in allUsers[b] : u.id = a /\ u.status = "idle"

\* C11: a startSession call with a user issues one write, which sets status
\* 'active', sessionStartTime and lastSeen together; no snapshot a tab is sent
\* or holds shows the record with only some of the three updated
StartIsOneWrite ==
  /\ [] ( \A b \in Tabs :
            \A u \in allUsers[b] \cup UNION { inbox[b][n] : n \in 1..Len(inbox[b]) } :
              /\ u.status = "active" <=> u.sessionStartTime # NullTime
              /\ u.status = "active" => u.lastSeen >= u.sessionStartTime )
  /\ [][ \A t \in Tabs :
           ( ~IsNull(currentUser[t]) /\ startSession(t) )
           => /\ wrote'.kind = "start"
              /\ wrote'.id = Val(currentUser[t]).id
              /\ Len(pending'[t]) = Len(pending[t]) + 1
              /\ sessions' = sessions ]_vars
  /\ [][ \A t \in Tabs : \A k \in 1..MaxPending :
           StartResolve(t, k)
           => LET d == Val(sessions'[pending[t][k].id])
              IN /\ d.status = "active"
                 /\ d.sessionStartTime = now
                 /\ d.lastSeen = now ]_vars

\* another tab's list shows a record started after time has passed since its
\* join, with start time and lastSeen of the same instant
OtherTabSawStart ==
  \E b \in Tabs : \E u \in allUsers[b] :
    /\ ~IsNull(currentUser[b])
    /\ u.id # Val(currentUser[b]).id
    /\ u.status = "active"
    /\ u.sessionStartTime > StartOfTime
    /\ u.lastSeen = u.sessionStartTime

\* C12: leaveRoom with a user sets isLeaving and clears currentUser and the
\* identity in localStorage before anything remote has happened; they stay
\* cleared while the leave is in flight; when the archive has resolved, the
\* record is no longer in the store and isLeaving is false again
LeaveClearsThenRemoves ==
  /\ [][ \A t \in Tabs :
           ( ~IsNull(currentUser[t]) /\ leaveRoom(t) )
           => /\ isLeaving'[t]
              /\ IsNull(currentUser'[t])
              /\ IsNull(savedUserId'[t])
              /\ sessions' = sessions
              /\ history' = history ]_vars
  /\ [] ( \A t \in Tabs :
            isLeaving[t] => IsNull(currentUser[t]) /\ IsNull(savedUserId[t]) )
  /\ [][ \A t \in Tabs : \A k \in 1..MaxPending :
           LeaveResolve(t, k)
           => /\ IsNull(sessions'[pending[t][k].id])
              /\ ~isLeaving'[t] ]_vars

\* a leave has gone through: the record is archived and gone, the tab has
\* neither user nor identity and is not leaving any more
LeftTheRoom ==
  \E t \in Tabs :
    /\ Len(history) = 1
    /\ IsNull(sessions[history[1].originalSessionId])
    /\ faults = 0
    /\ pending[t] = << >>
    /\ ~isLeaving[t] /\ ~isJoining[t]
    /\ IsNull(currentUser[t])
    /\ IsNull(savedUserId[t])
    /\ ~isLoading[t]

\* C13: leaveRoom never runs for a tab whose record is 'active' in the store or
\* whose startSession write is in flight: the Leave control is disabled whenever
\* the session is active, however a start click, its echo and a leave click
\* interleave
LeaveOnlyWhenNotStudying ==
  [][ \A t \in Tabs :
        ( ~IsNull(currentUser[t]) /\ leaveRoom(t) )
        => /\ \A k \in 1..Len(pending[t]) : pending[t][k].op # "start"
           /\ \/ IsNull(sessions[Val(currentUser[t]).id])
              \/ Val(sessions[Val(currentUser[t]).id]).status # "active" ]_vars

\* C14: when the remote write of startSession, endSession or leaveRoom fails,
\* nothing local is left half-applied: currentUser and the identity in
\* localStorage are what they were when the operation was called, and an error
\* is shown
FailedWriteRollsBack ==
  [][ \A t \in Tabs : \A k \in 1..MaxPending :
        /\ ( StartFail(t, k) \/ EndFail(t, k) )
             => /\ currentUser'[t] = currentUser[t]
                /\ savedUserId'[t] = savedUserId[t]
                /\ ~IsNull(error'[t])
        /\ LeaveFail(t, k)
             => /\ ~IsNull(currentUser'[t])
                /\ Val(currentUser'[t]).id = pending[t][k].id
                /\ savedUserId'[t] = Some(pending[t][k].id)
                /\ ~IsNull(error'[t]) ]_vars

\* C15: a rejected append to completed_sessions is swallowed: endSession goes on
\* to its updateDoc to idle exactly as after an append that succeeded (the same
\* write, the same duration), no error is set and nothing is recorded; and the
\* updateDoc, once applied, makes the record idle with no start time and shows
\* the feedback prompt by the duration alone
AppendFailureIsSwallowed ==
  /\ [][ \A t \in Tabs : \A k \in 1..MaxPending :
           EndSaved(t, k, FALSE)
           => /\ pending'[t] = [ pending[t] EXCEPT ![k].phase = "update" ]
              /\ wrote' = Write(t, "endSession", "end", pending[t][k].id, hidden[t])
              /\ error' = error
              /\ completed' = completed
              /\ showFeedbackModal' = showFeedbackModal
              /\ sessionDuration' = sessionDuration ]_vars
  /\ [][ \A t \in Tabs : \A k \in 1..MaxPending :
           EndResolve(t, k)
           => LET i == pending[t][k].id
              IN /\ Val(sessions'[i]).status = "idle"
                 /\ Val(sessions'[i]).sessionStartTime = NullTime
                 /\ error' = error
                 /\ showFeedbackModal'[t]
                      = ( showFeedbackModal[t] \/ pending[t][k].dur >= FeedbackSeconds ) ]_vars

\* a session of 30 seconds or more has ended with its append rejected: nothing
\* was recorded, the record is idle, there is no error and the prompt is shown
EndedWithoutRecord ==
  \E t \in Tabs :
    /\ completed = << >>
    /\ showFeedbackModal[t]
    /\ IsNull(error[t])
    /\ pending[t] = << >>
    /\ ~IsNull(currentUser[t])
    /\ ~IsNull(sessions[Val(currentUser[t]).id])
    /\ Val(sessions[Val(currentUser[t]).id]).status = "idle"

\* C16: when endSession's updateDoc has been applied, the tab's record is still
\* in the store, idle and without a start time; no record was removed and
\* nothing was archived; currentUser and the identity in localStorage are what
\* they were, and a tab that still holds the record's identity still has a user
EndSessionKeepsRecord ==
  [][ \A t \in Tabs : \A k \in 1..MaxPending :
        EndResolve(t, k)
        => LET i == pending[t][k].id
           IN /\ ~IsNull(sessions'[i])
              /\ Val(sessions'[i]).status = "idle"
              /\ Val(sessions'[i]).sessionStartTime = NullTime
              /\ Val(sessions'[i]).name = Val(sessions[i]).name
              /\ \A j \in Ids : IsNull(sessions'[j]) <=> IsNull(sessions[j])
              /\ history' = history
              /\ currentUser'[t] = currentUser[t]
              /\ savedUserId' = savedUserId
              /\ savedUserId[t] = Some(i) => ~IsNull(currentUser'[t]) ]_vars

\* a session has been ended without any failure: the tab is still in the room
\* with its identity, and its record is in the store, idle
StillInRoomAfterEnd ==
  \E t \in Tabs :
    /\ faults = 0
    /\ sessionDuration[t] > 0
    /\ pending[t] = << >>
    /\ ~IsNull(currentUser[t])
    /\ savedUserId[t] = Some(Val(currentUser[t]).id)
    /\ ~IsNull(sessions[Val(currentUser[t]).id])
    /\ Val(sessions[Val(currentUser[t]).id]).status = "idle"
    /\ Val(sessions[Val(currentUser[t]).id]).sessionStartTime = NullTime

\* C17: when a snapshot delivered while neither join nor leave is in flight holds
\* the record with the id in localStorage, currentUser becomes that record if
\* there was no user or it differs in id, status, name or start instant, and
\* otherwise keeps the value it had, whatever else (lastSeen) differs
ReplacedOnlyWhenChanged ==
  [][ \A t \in Tabs :
        ( /\ Deliver(t)
          /\ ~isJoining[t] /\ ~isLeaving[t]
          /\ ~IsNull(savedUserId[t])
          /\ Find(Head(inbox[t]), Val(savedUserId[t])) # {} )
        => LET u == CHOOSE r \in Find(Head(inbox[t]), Val(savedUserId[t])) : TRUE
               prev == currentUser[t]
           IN IF \/ IsNull(prev)
                 \/ Val(prev).id # u.id
                 \/ Val(prev).status # u.status
                 \/ Val(prev).name # u.name
                 \/ Val(prev).sessionStartTime # u.sessionStartTime
                THEN currentUser'[t] = Some(u)
                ELSE currentUser'[t] = prev ]_vars

\* the listener has delivered the store's present contents, in which the tab's
\* record carries a later heartbeat than the user the tab holds, and the tab
\* still holds the older value
KeptOlderLastSeen ==
  \E t \in Tabs :
    /\ ~IsNull(currentUser[t])
    /\ ~isJoining[t] /\ ~isLeaving[t]
    /\ savedUserId[t] = Some(Val(currentUser[t]).id)
    /\ inbox[t] = << >>
    /\ allUsers[t] = Snapshot(sessions)
    /\ \E r \in Find(allUsers[t], Val(currentUser[t]).id) :
         /\ r.lastSeen > Val(currentUser[t]).lastSeen
         /\ r.lastSeen > StartOfTime
         /\ r.status = Val(currentUser[t]).status
         /\ r.sessionStartTime = Val(currentUser[t]).sessionStartTime

\* C18: every snapshot delivered, also while a join or a leave is in flight,
\* makes allUsers exactly the records of that snapshot, and totalOnline is the
\* number of records in allUsers, before and after
EverySnapshotSetsAllUsers ==
  /\ [][ \A t \in Tabs :
           Deliver(t)
           => /\ allUsers'[t] = Head(inbox[t])
              /\ totalOnline(t)' = Cardinality({ r.id : r \in Head(inbox[t]) }) ]_vars
  /\ [] ( \A t \in Tabs :
            totalOnline(t) = Cardinality({ r.id : r \in allUsers[t] }) )

\* a tab that is leaving has been delivered the snapshot of its new
\* subscription: it has no user any more, and allUsers still lists the record it
\* is about to delete
LeavingStillListed ==
  \E t \in Tabs : \E k \in 1..Len(pending[t]) :
    /\ isLeaving[t]
    /\ pending[t][k].op = "leave"
    /\ inbox[t] = << >>
    /\ IsNull(currentUser[t])
    /\ Find(allUsers[t], pending[t][k].id) # {}
    /\ totalOnline(t) = Cardinality(Snapshot(sessions))

BlankNameIsRejected ==
  /\ [][ \A t \in Tabs : \A raw \in RawNames(t) :
           ( ( \A n \in 1..Len(raw) : raw[n] = " " ) /\ handleSubmit(t, raw) )
           => /\ wrote'.by = "handleSubmit" /\ wrote'.kind = "none"
              /\ pending' = pending
              /\ sessions' = sessions /\ nextId' = nextId
              /\ inbox' = inbox
              /\ currentUser' = currentUser
              /\ savedUserId' = savedUserId
              /\ isJoining' = isJoining
              /\ isLoading' = isLoading /\ error' = error ]_vars
  /\ [] ( /\ \A i \in Ids : ~IsNull(sessions[i]) => Val(sessions[i]).name # << >>
          /\ \A t \in Tabs : \A k \in 1..Len(pending[t]) :
               pending[t][k].op = "join" => pending[t][k].name # << >> )

\* the form has just been submitted with nothing but blanks in it: the tab has
\* no user, no identity, and no join under way
BlankNameSubmitted ==
  \E t \in Tabs :
    /\ wrote = Write(t, "handleSubmit", "none", 0, hidden[t])
    /\ ~isLoading[t]
    /\ IsNull(currentUser[t])
    /\ IsNull(savedUserId[t])
    /\ ~isJoining[t]
    /\ pending[t] = << >>

\* C21: the first snapshot delivered after a reload (the hook is loading, has no
\* user, no join or leave in flight, and localStorage still holds an id whose
\* record is in the store) makes currentUser that record as the snapshot shows
\* it; the id in localStorage is kept and the store is not written to
ReloadRejoinsSameIdentity ==
  [][ \A t \in Tabs :
        ( /\ Deliver(t)
          /\ isLoading[t] /\ IsNull(currentUser[t])
          /\ ~isJoining[t] /\ ~isLeaving[t]
          /\ ~IsNull(savedUserId[t])
          /\ ~IsNull(sessions[Val(savedUserId[t])]) )
        => LET i == Val(savedUserId[t])
           IN /\ Find(Head(inbox[t]), i) # {}
              /\ ~IsNull(currentUser'[t])
              /\ Val(currentUser'[t]) \in Find(Head(inbox[t]), i)
              /\ Val(currentUser'[t]).name = Val(sessions[i]).name
              /\ savedUserId'[t] = savedUserId[t]
              /\ sessions' = sessions
              /\ nextId' = nextId
              /\ pending'[t] = << >>
              /\ ~isLoading'[t] ]_vars

\* a tab has joined and been reloaded, nothing else, and the snapshot of its
\* new subscription has given it its record back: the user it holds is the
\* store's document, server time and all, not the one joinRoom made locally
RejoinedAfterReload ==
  \E t \in Tabs :
    /\ calls = 2
    /\ lag > 0
    /\ ~isLoading[t]
    /\ inbox[t] = << >>
    /\ ~IsNull(savedUserId[t])
    /\ ~IsNull(sessions[Val(savedUserId[t])])
    /\ currentUser[t] = Some(ToSession(Val(savedUserId[t]),
                                       Val(sessions[Val(savedUserId[t])])))
    /\ Val(currentUser[t]).status = "idle"
    /\ nextId = 2

FailedHeartbeatIsSilent ==
  [][ \A t \in Tabs :
        ( /\ \/ IntervalTick(t)
             \/ handleVisibilityChange(t)
             \/ \E i \in Ids : LeakedTick(t, i)
          /\ wrote'.kind = "heartbeat"
          /\ sessions' = sessions )
        => /\ error' = error
           /\ currentUser' = currentUser
           /\ isLoading' = isLoading
           /\ isJoining' = isJoining
           /\ isLeaving' = isLeaving
           /\ savedUserId' = savedUserId
           /\ hbTimer[t] = "live" => hbTimer'[t] = "live"
           /\ wrote'.by = "handleVisibilityChange" => hbTimer'[t] = "live"
           /\ leaked[t] \subseteq leaked'[t] ]_vars

\* the interval of a joined tab has just sent a heartbeat that was rejected: the
\* record keeps its older lastSeen, the tab shows no error and its timer is live
HeartbeatWasRejected ==
  \E t \in Tabs :
    /\ faults = 1
    /\ wrote = Write(t, "interval", "heartbeat", wrote.id, FALSE)
    /\ ~IsNull(currentUser[t]) /\ Val(currentUser[t]).id = wrote.id
    /\ ~IsNull(sessions[wrote.id])
    /\ Val(sessions[wrote.id]).lastSeen < now
    /\ IsNull(error[t])
    /\ hbTimer[t] = "live"

\* C24: endSession computes floor((now - sessionStartTime) / 1000) on the
\* client's clock and exposes it as sessionDuration; the record the recorder
\* appends for that call carries the same number; the prompt comes up when the
\* update to idle has resolved and that number is 30 or more, and neither when
\* it is less nor when the update is rejected; sessionDuration changes only
\* when endSession is called and when the prompt is closed, and whenever the
\* prompt is up sessionDuration is the number that brought it up, 30 or more
PromptFollowsLocalDuration ==
  /\ [][ \A t \in Tabs :
           ( /\ ~IsNull(currentUser[t])
             /\ Val(currentUser[t]).sessionStartTime # NullTime
             /\ endSession(t) )
           => /\ sessionDuration'[t]
                   = ( (now - lag) - Val(currentUser[t]).sessionStartTime ) \div 1000
              /\ pending'[t][Len(pending'[t])].dur = sessionDuration'[t]
              /\ showFeedbackModal' = showFeedbackModal ]_vars
  /\ [][ \A t \in Tabs : \A k \in 1..MaxPending :
           /\ EndSaved(t, k, TRUE)
                => /\ completed'[Len(completed')].sessionDuration = pending[t][k].dur
                   /\ showFeedbackModal' = showFeedbackModal
                   /\ sessionDuration' = sessionDuration
           /\ EndResolve(t, k)
                => /\ ~showFeedbackModal[t]
                        => ( showFeedbackModal'[t] <=> pending[t][k].dur >= 30 )
                   /\ sessionDuration' = sessionDuration
           /\ EndFail(t, k)
                => showFeedbackModal' = showFeedbackModal ]_vars
  /\ [][ \A t \in Tabs :
           sessionDuration'[t] # sessionDuration[t]
           => ( endSession(t) \/ closeFeedbackModal(t) ) ]_vars
  /\ [] ( \A t \in Tabs : showFeedbackModal[t] => sessionDuration[t] >= 30 )

\* C25: a snapshot delivered while the join is in flight changes neither
\* currentUser nor the identity in localStorage; when the join has resolved,
\* every snapshot waiting for the tab holds the record just created; and no
\* snapshot delivered to a tab that holds a user whose record is in the store,
\* under the id in localStorage, takes that user or that id away
JoinSurvivesStaleSnapshot ==
  /\ [][ \A t \in Tabs :
           ( isJoining[t] /\ Deliver(t) )
           => /\ currentUser'[t] = currentUser[t]
              /\ savedUserId'[t] = savedUserId[t] ]_vars
  /\ [][ \A t \in Tabs : \A k \in 1..MaxPending :
           JoinResolve(t, k)
           => /\ ~isJoining'[t]
              /\ currentUser'[t] = Some(NewUser(nextId, pending[t][k]))
              /\ inbox'[t] # << >>
              /\ \A n \in 1..Len(inbox'[t]) : Find(inbox'[t][n], nextId) # {} ]_vars
  /\ [][ \A t \in Tabs :
           ( /\ Deliver(t)
             /\ ~IsNull(currentUser[t])
             /\ savedUserId[t] = Some(Val(currentUser[t]).id)
             /\ ~IsNull(sessions[Val(currentUser[t]).id]) )
           => /\ ~IsNull(currentUser'[t])
              /\ Val(currentUser'[t]).id = Val(currentUser[t]).id
              /\ savedUserId'[t] = savedUserId[t] ]_vars

\* a tab has joined a room where another was already: the last snapshot it was
\* given is from before its own record was created and lists the other only;
\* it holds the user joinRoom made, its record is in the store, the join is over
JoinedOnStaleList ==
  \E t \in Tabs :
    /\ ~isJoining[t] /\ ~isLeaving[t]
    /\ ~IsNull(currentUser[t])
    /\ savedUserId[t] = Some(Val(currentUser[t]).id)
    /\ ~IsNull(sessions[Val(currentUser[t]).id])
    /\ allUsers[t] # {}
    /\ Find(allUsers[t], Val(currentUser[t]).id) = {}
    /\ inbox[t] # << >>

\* C26: endSession of an interval of 5 s or more awaits the append first and
\* issues no write to the record in that step; the update to idle is issued by
\* the step in which the append is answered; so, failures apart, an update to
\* idle in flight for such an interval finds the completed record in place, with
\* the start, the end and the duration endSession computed, and a record goes
\* from active to idle only when such an update is applied
AppendBeforeIdle ==
  /\ [][ \A t \in Tabs :
           ( /\ ~IsNull(currentUser[t])
             /\ Val(currentUser[t]).sessionStartTime # NullTime
             /\ endSession(t)
             /\ sessionDuration'[t] >= 5 )
           => /\ pending'[t][Len(pending'[t])].phase = "save"
              /\ pending'[t][Len(pending'[t])].start = Val(currentUser[t]).sessionStartTime
              /\ pending'[t][Len(pending'[t])].at = now - lag
              /\ wrote'.kind = "none"
              /\ sessions' = sessions ]_vars
  /\ [] ( \A t \in Tabs : \A k \in 1..Len(pending[t]) :
            ( /\ pending[t][k].op = "end" /\ pending[t][k].phase = "update"
              /\ pending[t][k].dur >= 5
              /\ faults = 0 )
            => \E j \in 1..Len(completed) :
                 /\ completed[j].startTime = pending[t][k].start
                 /\ completed[j].endTime = pending[t][k].at
                 /\ completed[j].sessionDuration = pending[t][k].dur
                 /\ completed[j].userName = pending[t][k].name )
  /\ [][ \A i \in Ids :
           ( /\ ~IsNull(sessions[i]) /\ ~IsNull(sessions'[i])
             /\ Val(sessions[i]).status = "active"
             /\ Val(sessions'[i]).status = "idle" )
           => \E t \in Tabs : \E k \in 1..MaxPending :
                EndResolve(t, k) /\ pending[t][k].id = i ]_vars

\* a session of 5 s or more has been ended without a failure: its record is
\* idle in the store, the completed record is there, and the tab that ended it
\* has not been shown the idle record yet
RecordedBeforeIdleSeen ==
  \E t \in Tabs :
    /\ faults = 0
    /\ pending[t] = << >>
    /\ Len(completed) = 1
    /\ completed[1].userId = t
    /\ ~IsNull(currentUser[t])
    /\ Val(currentUser[t]).status = "active"
    /\ completed[1].startTime = Val(currentUser[t]).sessionStartTime
    /\ Val(sessions[Val(currentUser[t]).id]).status = "idle"
    /\ inbox[t] # << >>

ActiveWithoutStartShownIdle ==
  /\ [] ( \A t \in Tabs :
            ( /\ ~IsNull(currentUser[t])
              /\ Val(currentUser[t]).status = "active"
              /\ Val(currentUser[t]).sessionStartTime = NullTime )
            => ( StartShown(t) /\ ~LeaveDisabled(t) ) )
  /\ [] ( \A t \in Tabs : \A user \in allUsers[t] :
            ( user.status = "active" /\ user.sessionStartTime = NullTime )
            => ~isStudying(user) )
  /\ [][ \A t \in Tabs :
           ( /\ ~IsNull(currentUser[t])
             /\ Val(currentUser[t]).status = "active"
             /\ Val(currentUser[t]).sessionStartTime = NullTime )
           => /\ ~onEndSession(t)
              /\ ( wrote'.tab = t /\ wrote'.kind # "none" ) => wrote'.kind = "start" ]_vars

\* a tab whose user is 'active' without a start time has clicked Start, which
\* it was offered, and the write is on its way
StartClickedOnActiveWithoutStart ==
  \E t \in Tabs :
    /\ ~IsNull(currentUser[t])
    /\ Val(currentUser[t]).status = "active"
    /\ Val(currentUser[t]).sessionStartTime = NullTime
    /\ isStartingSession[t]
    /\ wrote = Write(t, "startSession", "start", Val(currentUser[t]).id, FALSE)
    /\ \E user \in allUsers[t] : user.status = "active" /\ ~isStudying(user)

\* C29: the collection of completed sessions only grows: whatever step is
\* taken, every record that was there is still there, in its place and with
\* the same fields, and at most one record is added, by the recorder
CompletedOnlyGrows ==
  [][ /\ Len(completed') >= Len(completed)
      /\ Len(completed') <= Len(completed) + 1
      /\ \A j \in 1..Len(completed) : completed'[j] = completed[j]
      /\ Len(completed') > Len(completed)
           => \E t \in Tabs : \E k \in 1..MaxPending : EndSaved(t, k, TRUE) ]_vars

\* two records have been appended, one after the other, and every write has
\* been answered and every snapshot delivered since: both are still there
TwoSessionsRecorded ==
  /\ Len(completed) = 2
  /\ completed[1].sessionDuration >= 5
  /\ \A t \in Tabs : pending[t] = << >> /\ inbox[t] = << >>

\* C30: the name of a session record never changes after its creation: over
\* any step that leaves the document in the store (a start, an end, a heartbeat,
\* the archive of a leave, or anything else) the name field is what it was, and
\* a document that is created carries the trimmed name its creator typed
NameNeverChanges ==
  [][ \A i \in Ids :
        /\ ( ~IsNull(sessions[i]) /\ ~IsNull(sessions'[i]) )
             => Val(sessions'[i]).name = Val(sessions[i]).name
        /\ ( IsNull(sessions[i]) /\ ~IsNull(sessions'[i]) )
             => /\ wrote'.by = "joinRoom"
                /\ Val(sessions'[i]).name = << NameOf(wrote'.tab) >> ]_vars

\* a record that was created, started and then touched by a later heartbeat
\* still carries the name it was created with
NamedAfterStartAndHeartbeat ==
  \E t \in Tabs :
    /\ ~IsNull(currentUser[t])
    /\ ~IsNull(sessions[Val(currentUser[t]).id])
    /\ LET d == Val(sessions[Val(currentUser[t]).id])
       IN /\ d.status = "active"
          /\ d.sessionStartTime # NullTime
          /\ d.lastSeen > d.sessionStartTime
          /\ d.name = << NameOf(t) >>
    /\ wrote.tab = t /\ wrote.kind = "heartbeat"

\* ------------------------------------------- a session that is being ended

\* a room of joined tabs a few seconds into the session of tab 1 (too short to
\* be saved), whose user has just clicked End Session: endSession is suspended
\* at its updateDoc
InitEnding ==
  /\ \E d \in TickSteps : ~ShouldSave(Duration(StartOfTime, StartOfTime + d))
                           /\ now = StartOfTime + d
  /\ ticks = 0
  /\ lag = 0
  /\ calls = 0
  /\ faults = 0
  /\ toggles = 0
  /\ sessions = [ i \in Ids |->
                    IF i \in Tabs
                      THEN Some([ name |-> << NameOf(i) >>,
                                  status |-> IF i = 1 THEN "active" ELSE "idle",
                                  sessionStartTime |-> IF i = 1 THEN StartOfTime ELSE NullTime,
                                  lastSeen |-> StartOfTime ])
                      ELSE Null ]
  /\ nextId = NumTabs + 1
  /\ completed = << >>
  /\ history = << >>
  /\ currentUser = [ t \in Tabs |-> Some(ToSession(t, Val(sessions[t]))) ]
  /\ allUsers = [ t \in Tabs |-> Snapshot(sessions) ]
  /\ isLoading = [ t \in Tabs |-> FALSE ]
  /\ error = [ t \in Tabs |-> Null ]
  /\ showFeedbackModal = [ t \in Tabs |-> FALSE ]
  /\ sessionDuration = [ t \in Tabs |->
                           IF t = 1 THEN Duration(StartOfTime, ClientNow) ELSE 0 ]
  /\ isJoining = [ t \in Tabs |-> FALSE ]
  /\ isLeaving = [ t \in Tabs |-> FALSE ]
  /\ isStartingSession = [ t \in Tabs |-> FALSE ]
  /\ savedUserId = [ t \in Tabs |-> Some(t) ]
  /\ hidden = [ t \in Tabs |-> FALSE ]
  /\ hbTimer = [ t \in Tabs |-> "live" ]
  /\ leaked = [ t \in Tabs |-> {} ]
  /\ inbox = [ t \in Tabs |-> << >> ]
  /\ LET d == Duration(StartOfTime, ClientNow)
         ph == IF ShouldSave(d) THEN "save" ELSE "update"
     IN /\ pending = [ t \in Tabs |->
                         IF t = 1
                           THEN << Op("end", ph, 1, << NameOf(1) >>, StartOfTime,
                                      ClientNow, d) >>
                           ELSE << >> ]
        /\ wrote = IF ShouldSave(d) THEN NoWrite
                   ELSE Write(1, "endSession", "end", 1, FALSE)

\* the Start and End buttons of the page of tab 1, clicked by its user, the
\* remote operations they await, and the listeners and heartbeat intervals of
\* every tab in the room
NextEnding ==
  \/ LongTick
  \/ handleStartSession(1)
  \/ onEndSession(1)
  \/ \E t \in Tabs :
       \/ Deliver(t)
       \/ IntervalTick(t)
       \/ \E k \in 1..MaxPending :
            \/ StartResolve(t, k)
            \/ StartFail(t, k)
            \/ EndResolve(t, k)
            \/ EndFail(t, k)

SpecEnding == InitEnding /\ [][NextEnding]_vars

\* ------------------------------------------------------ timers and flags

\* the interval timers of a tab that are running: the one the effect tracks,
\* if it is live, and those it lost track of (one per id at least)
LiveTimers(t) == ( IF hbTimer[t] = "live" THEN 1 ELSE 0 ) + Cardinality(leaked[t])

\* C31: at any time a tab has at most one live heartbeat interval timer: no
\* earlier interval is left running alongside a newer one, whatever the
\* sequence of currentUser changes and hidden / visible transitions
AtMostOneLiveTimer == \A t \in Tabs : LiveTimers(t) <= 1

\* C32: once a tab's currentUser is null (after leaveRoom or an eviction) the
\* tab issues no heartbeat write: the only heartbeat a tab without a user may
\* send is the first one of a join that has just created its record
NoHeartbeatWithoutUser ==
  [][ \A t \in Tabs :
        ( IsNull(currentUser[t]) /\ wrote'.tab = t /\ wrote'.kind = "heartbeat" )
          => wrote'.by = "joinRoom" ]_vars

\* a joinRoom (a leaveRoom) of tab t is suspended at one of its awaits
JoinInFlight(t) == \E k \in 1..Len(pending[t]) : pending[t][k].op = "join"
LeaveInFlight(t) == \E k \in 1..Len(pending[t]) : pending[t][k].op = "leave"

\* C33: every joinRoom and every leaveRoom returns its flag to false, whether
\* its remote operation succeeds or fails: a flag that is up comes down (given
\* that every remote operation is answered), and a flag is up only while a call
\* of its handler is suspended, so the listener is never held back longer
FlagsComeDown ==
  /\ [] ( \A t \in Tabs : /\ isJoining[t] => JoinInFlight(t)
                          /\ isLeaving[t] => LeaveInFlight(t) )
  /\ \A t \in Tabs : isJoining[t] ~> ~isJoining[t]
  /\ \A t \in Tabs : isLeaving[t] ~> ~isLeaving[t]

\* a tab joined, which brought isJoining down on success, then left, and the
\* archive failed: the error is shown and isLeaving is down
LeaveFailedAndFlagsDown ==
  \E t \in Tabs :
    /\ error[t] = Some("Failed to leave room")
    /\ pending[t] = << >>
    /\ ~isJoining[t] /\ ~isLeaving[t]
    /\ ~IsNull(sessions[1]) /\ Val(sessions[1]).name = << NameOf(t) >>

\* currentUser of tab t is what the listener makes of the store as it is: null
\* without a stored identity or without its record, else the record in the
\* fields the updater compares (id, status, name, start time)
FollowsStore(t) ==
  IF IsNull(savedUserId[t]) THEN IsNull(currentUser[t])
  ELSE LET i == Val(savedUserId[t])
       IN IF IsNull(sessions[i]) THEN IsNull(currentUser[t])
          ELSE Reconcile(currentUser[t], ToSession(i, Val(sessions[i]))) = currentUser[t]

IdentityMatchesUser ==
  \A t \in Tabs :
    ( ~IsNull(currentUser[t]) /\ ~isJoining[t] /\ ~isLeaving[t]
      /\ ~JoinInFlight(t) /\ ~LeaveInFlight(t) )
      => savedUserId[t] = Some(Val(currentUser[t]).id)

\* a tab that joined, left and joined again holds its second identity, in
\* localStorage as in currentUser, and its first record is in the history
SecondIdentityHeld ==
  \E t \in Tabs :
    /\ ~IsNull(currentUser[t]) /\ ~Suppressed(t) /\ pending[t] = << >>
    /\ savedUserId[t] = Some(Val(currentUser[t]).id)
    /\ Len(history) = 1
    /\ history[1].name = << NameOf(t) >>
    /\ history[1].originalSessionId # Val(currentUser[t]).id

\* C36: once a record is 'active' with start time T its start time stays T
\* until an endSession write sets it to null: over any step that keeps the
\* record, the start time of a running session is unchanged, or it is null
\* and the step is the update of an endSession
StartTimeIsNotMoved ==
  [][ \A i \in Ids :
        ( /\ ~IsNull(sessions[i]) /\ ~IsNull(sessions'[i])
          /\ Val(sessions[i]).status = "active"
          /\ Val(sessions[i]).sessionStartTime # NullTime )
        => \/ Val(sessions'[i]).sessionStartTime = Val(sessions[i]).sessionStartTime
           \/ /\ Val(sessions'[i]).sessionStartTime = NullTime
              /\ \E t \in Tabs : \E k \in 1..MaxPending : EndResolve(t, k) ]_vars

\* the history holds the archived copy of the presence record i
Archived(i) == \E j \in 1..Len(history) : history[j].originalSessionId = i

\* C37: archiveSession appends the history record before it deletes the
\* presence record, and deletes only after the append succeeded: a step in
\* which a leave removes a record finds its copy in the history already; and
\* when the append fails the record and the history stay as they are, the
\* error is set and isLeaving is cleared
ArchiveBeforeDelete ==
  [][ /\ \A i \in Ids :
          ( ~IsNull(sessions[i]) /\ IsNull(sessions'[i]) ) => ( Evict(i) \/ Archived(i) )
      /\ \A t \in Tabs : \A k \in 1..MaxPending :
          ( << t, k >> \in PendingOf("leave", "archive") /\ LeaveFail(t, k) )
            => /\ sessions' = sessions
               /\ history' = history
               /\ ~IsNull(sessions[pending[t][k].id]) => ~Archived(pending[t][k].id)
               /\ error'[t] = Some("Failed to leave room")
               /\ ~isLeaving'[t] ]_vars

\* the append of a leave was rejected: the presence record is in the store
\* still, the history is empty, the error is shown and isLeaving is down
AppendFailedRecordKept ==
  \E t \in Tabs :
    /\ error[t] = Some("Failed to leave room")
    /\ ~isLeaving[t] /\ pending[t] = << >>
    /\ IsNull(currentUser[t]) /\ IsNull(savedUserId[t])
    /\ history = << >>
    /\ \E i \in Ids : ~IsNull(sessions[i]) /\ Val(sessions[i]).name = << NameOf(t) >>

\* -------------------------------------------------------- the mock hook

\* useMockSession keeps currentUser, isLoading, showFeedbackModal and
\* sessionDuration per browser; it has no store, no listener and no heartbeat,
\* its error is always null and its allUsers is computed at every render

\* mockUsers, as computed at a render at client time `at`
mockUsers(at) ==
  << [ id |-> 1, name |-> << "Alice" >>, status |-> "active",
       sessionStartTime |-> at - 15 * 60 * 1000, lastSeen |-> at ],
     [ id |-> 2, name |-> << "Bob" >>, status |-> "idle",
       sessionStartTime |-> NullTime, lastSeen |-> at ],
     [ id |-> 3, name |-> << "Charlie" >>, status |-> "active",
       sessionStartTime |-> at - 8 * 60 * 1000, lastSeen |-> at ] >>

\* const allUsers = currentUser ? [...mockUsers, currentUser] : mockUsers
mockAllUsers(t) ==
  IF IsNull(currentUser[t]) THEN mockUsers(ClientNow)
  ELSE Append(mockUsers(ClientNow), Val(currentUser[t]))

\* totalOnline: allUsers.length
mockTotalOnline(t) == Len(mockAllUsers(t))

\* the mock hook right after its first render in every browser
InitMock ==
  /\ now = StartOfTime
  /\ ticks = 0
  /\ lag = 0
  /\ calls = 0
  /\ faults = 0
  /\ toggles = 0
  /\ sessions = [ i \in Ids |-> Null ]
  /\ nextId = 1
  /\ completed = << >>
  /\ history = << >>
  /\ wrote = NoWrite
  /\ currentUser = [ t \in Tabs |-> Null ]
  /\ allUsers = [ t \in Tabs |-> {} ]
  /\ isLoading = [ t \in Tabs |-> FALSE ]
  /\ error = [ t \in Tabs |-> Null ]
  /\ showFeedbackModal = [ t \in Tabs |-> FALSE ]
  /\ sessionDuration = [ t \in Tabs |-> 0 ]
  /\ isJoining = [ t \in Tabs |-> FALSE ]
  /\ isLeaving = [ t \in Tabs |-> FALSE ]
  /\ isStartingSession = [ t \in Tabs |-> FALSE ]
  /\ savedUserId = [ t \in Tabs |-> Null ]
  /\ hidden = [ t \in Tabs |-> FALSE ]
  /\ hbTimer = [ t \in Tabs |-> "none" ]
  /\ leaked = [ t \in Tabs |-> {} ]
  /\ inbox = [ t \in Tabs |-> << >> ]
  /\ pending = [ t \in Tabs |-> << >> ]

\* what the mock hook never touches
mockFrame ==
  UNCHANGED << lag, storeVars, allUsers, error, isJoining, isLeaving,
               isStartingSession, savedUserId, hbVars, inbox >>

\* mock joinRoom(name) up to its await of the 500 ms timer
mockJoinRoom(t, name) ==
  /\ Len(pending[t]) < MaxPending
  /\ isLoading' = [ isLoading EXCEPT ![t] = TRUE ]
  /\ pending' = [ pending EXCEPT ![t] =
                    Append(@, Op("mockJoin", "timer", 0, name, NullTime, ClientNow, 0)) ]
  /\ wrote' = NoWrite
  /\ Call
  /\ mockFrame
  /\ UNCHANGED << now, ticks, currentUser, showFeedbackModal, sessionDuration >>

\* mock joinRoom after the timer: the new user, id Date.now().toString()
mockJoinDone(t, k) ==
  /\ << t, k >> \in PendingOf("mockJoin", "timer")
  /\ currentUser' = [ currentUser EXCEPT ![t] =
                        Some([ id |-> ClientNow, name |-> Trim(pending[t][k].name),
                               status |-> "idle", sessionStartTime |-> NullTime,
                               lastSeen |-> ClientNow ]) ]
  /\ isLoading' = [ isLoading EXCEPT ![t] = FALSE ]
  /\ pending' = [ pending EXCEPT ![t] = Drop(@, k) ]
  /\ wrote' = NoWrite
  /\ NoCost
  /\ mockFrame
  /\ UNCHANGED << now, ticks, showFeedbackModal, sessionDuration >>

\* variant: a mock start that sets the status and no start time
mockStartedStatusOnly(user) == [ user EXCEPT !.status = "active" ]

\* { ...currentUser, status: 'active', sessionStartTime: Timestamp.now() }
mockStarted(user) == [ user EXCEPT !.status = "active", !.sessionStartTime = ClientNow ]

\* mock startSession: without a user it returns at once
mockStartSession(t) ==
  IF IsNull(currentUser[t])
    THEN Returned(t, "mockStartSession")
    ELSE /\ currentUser' = [ currentUser EXCEPT ![t] = Some(mockStarted(Val(@))) ]
         /\ wrote' = NoWrite
         /\ Call
         /\ mockFrame
         /\ UNCHANGED << now, ticks, isLoading, showFeedbackModal, sessionDuration,
                         pending >>

\* let duration = 0; if (sessionStartTime) duration = floor((Date.now() - start) / 1000)
mockDuration(user) ==
  IF user.sessionStartTime # NullTime
    THEN Duration(user.sessionStartTime, ClientNow) ELSE 0

\* variant: a prompt for every session long enough to be saved
mockShowsFeedbackFromFive(d) == d >= MinSavedSeconds

\* if (duration >= 30) setShowFeedbackModal(true)
mockShowsFeedback(d) == d >= FeedbackSeconds

\* mock endSession: without a user it returns at once; sessionDuration is set
\* only if there was a start time
mockEndSession(t) ==
  IF IsNull(currentUser[t])
    THEN Returned(t, "mockEndSession")
    ELSE LET u == Val(currentUser[t])
         IN /\ sessionDuration' = [ sessionDuration EXCEPT ![t] =
                 IF u.sessionStartTime # NullTime THEN mockDuration(u) ELSE @ ]
            /\ currentUser' = [ currentUser EXCEPT ![t] =
                 Some([ u EXCEPT !.status = "idle", !.sessionStartTime = NullTime ]) ]
            /\ showFeedbackModal' = [ showFeedbackModal EXCEPT ![t] =
                 IF mockShowsFeedback(mockDuration(u)) THEN TRUE ELSE @ ]
            /\ wrote' = NoWrite
            /\ Call
            /\ mockFrame
            /\ UNCHANGED << now, ticks, isLoading, pending >>

\* mock leaveRoom: setCurrentUser(null), whatever the user
mockLeaveRoom(t) ==
  /\ currentUser' = [ currentUser EXCEPT ![t] = Null ]
  /\ wrote' = NoWrite
  /\ Call
  /\ mockFrame
  /\ UNCHANGED << now, ticks, isLoading, showFeedbackModal, sessionDuration, pending >>

\* mock closeFeedbackModal, from the prompt
mockCloseFeedbackModal(t) ==
  /\ showFeedbackModal[t]
  /\ showFeedbackModal' = [ showFeedbackModal EXCEPT ![t] = FALSE ]
  /\ sessionDuration' = [ sessionDuration EXCEPT ![t] = 0 ]
  /\ wrote' = NoWrite
  /\ NoCost
  /\ mockFrame
  /\ UNCHANGED << now, ticks, currentUser, isLoading, pending >>

\* the mock hook of every browser, called in any order
NextMock ==
  \/ Tick
  \/ \E t \in Tabs :
       \/ \E name \in RawNames(t) : mockJoinRoom(t, name)
       \/ \E k \in 1..MaxPending : mockJoinDone(t, k)
       \/ mockStartSession(t)
       \/ mockEndSession(t)
       \/ mockLeaveRoom(t)
       \/ mockCloseFeedbackModal(t)

SpecMock == InitMock /\ [][NextMock]_vars

\* C38: the mock hook keeps the session invariant of the real one: its
\* currentUser is null or is 'active' exactly when it has a start time;
\* totalOnline is the length of allUsers (the three mock users, and the user
\* if there is one); and the prompt comes up exactly when an endSession ends
\* an interval of 30 s or more: such a call raises it, a call on a shorter
\* interval leaves it as it is, and nothing else raises it
MockKeepsSessionInvariant ==
  /\ [] ( \A t \in Tabs :
           /\ IsNull(currentUser[t])
                \/ ( Val(currentUser[t]).status = "active"
                       <=> Val(currentUser[t]).sessionStartTime # NullTime )
           /\ mockTotalOnline(t) = Len(mockAllUsers(t))
           /\ mockTotalOnline(t) = 3 + ( IF IsNull(currentUser[t]) THEN 0 ELSE 1 ) )
  /\ [][ \A t \in Tabs :
           /\ ( ~IsNull(currentUser[t]) /\ mockEndSession(t) )
                => LET start == Val(currentUser[t]).sessionStartTime
                       ended == IF start = NullTime THEN 0
                                ELSE ( ClientNow - start ) \div MsPerSecond
                   IN IF ended >= 30 THEN showFeedbackModal'[t]
                      ELSE showFeedbackModal'[t] = showFeedbackModal[t]
           /\ ( showFeedbackModal'[t] /\ ~showFeedbackModal[t] )
                => ( ~IsNull(currentUser[t]) /\ mockEndSession(t) ) ]_vars

\* a mock user has ended an interval of 30 s or more: idle, without a start
\* time, the prompt up, four users on the list
MockPromptAfterLongSession ==
  \E t \in Tabs :
    /\ ~IsNull(currentUser[t])
    /\ Val(currentUser[t]).status = "idle"
    /\ Val(currentUser[t]).sessionStartTime = NullTime
    /\ showFeedbackModal[t]
    /\ sessionDuration[t] >= 30
    /\ mockTotalOnline(t) = 4
====
